---- MODULE Spec2Model ----
(***************************************************************************)
(* Model of facet-owned-shape: the shape -> relational schema compiler     *)
(* (src/src/conversion.rs) and the structural differ (src/src/diff.rs).    *)
(*                                                                         *)
(* Identifiers (type identifiers, field, variant, table and column names)  *)
(* are sequences of one-character strings, so that to_lowercase, contains, *)
(* ends_with and format! are computed character by character.              *)
(***************************************************************************)
EXTENDS Integers, Sequences, FiniteSets, TLC

VARIABLES pc, shape, schema, from, to, diff, alter, schema_name, stmts, rows, cow, owned, cow2, owned2

vars == <<pc, shape, schema, from, to, diff, alter, schema_name, stmts, rows, cow, owned, cow2, owned2>>

(***************************************************************************)
(* Strings                                                                 *)
(***************************************************************************)
Uppers == <<"A","B","C","D","E","F","G","H","I","J","K","L","M",
            "N","O","P","Q","R","S","T","U","V","W","X","Y","Z">>
Lowers == <<"a","b","c","d","e","f","g","h","i","j","k","l","m",
            "n","o","p","q","r","s","t","u","v","w","x","y","z">>

\* char::to_lowercase on the ASCII range
to_lowercase_char(c) ==
    IF \E i \in 1..Len(Uppers) : Uppers[i] = c
    THEN Lowers[CHOOSE i \in 1..Len(Uppers) : Uppers[i] = c]
    ELSE c

\* str::to_lowercase
to_lowercase(s) == [i \in 1..Len(s) |-> to_lowercase_char(s[i])]

\* str::contains
contains(s, pat) ==
    \E i \in 1..(Len(s) - Len(pat) + 1) : SubSeq(s, i, i + Len(pat) - 1) = pat

\* str::ends_with
ends_with(s, pat) ==
    /\ Len(s) >= Len(pat)
    /\ SubSeq(s, Len(s) - Len(pat) + 1, Len(s)) = pat

sUnderscore == <<"_">>
sId == <<"i","d">>
sUnderscoreId == <<"_","i","d">>
sDiscriminant == <<"d","i","s","c","r","i","m","i","n","a","n","t">>
sVariantIntegrity ==
    <<"v","a","r","i","a","n","t","_","i","n","t","e","g","r","i","t","y">>
sOption == <<"O","p","t","i","o","n">>
sString == <<"S","t","r","i","n","g">>
sColonString == <<":",":","S","t","r","i","n","g">>
sAllocString == <<"a","l","l","o","c",":",":","s","t","r","i","n","g",":",":",
                  "S","t","r","i","n","g">>
sVec == <<"V","e","c">>
sColonVec == <<":",":","v","e","c",":",":","V","e","c">>
sHashMap == <<"H","a","s","h","M","a","p">>
sStr == <<"s","t","r">>

(***************************************************************************)
(* Results of the conversion functions                                     *)
(***************************************************************************)
\* "let value = ...;" followed by the code that reads it
With(value, Body(_)) == Body(value)

\* Ok((data_type, nullable)) of shape_to_data_type
OkType(dt, nullable) ==
    [ok |-> TRUE, err |-> "None", data_type |-> dt, nullable |-> nullable]

\* Err(ConversionError::<kind>) of the data type functions
ErrType(kind) ==
    [ok |-> FALSE, err |-> kind, data_type |-> "None", nullable |-> FALSE]

(***************************************************************************)
(* ShapeCompiler: field shape -> SQL data type                             *)
(***************************************************************************)
is_option_type(s) == contains(s.type_identifier, sOption)

\* Some(inner) is <<inner>>, None is <<>>
get_option_inner_type(s) ==
    IF s.type_params # <<>>
    THEN <<s.type_params[1]>>
    ELSE IF /\ s.ty.kind = "User"
            /\ s.ty.user = "Enum"
            /\ s.ty.variants # <<>>
            /\ s.ty.variants[1].data.kind = "Tuple"
            /\ s.ty.variants[1].data.fields # <<>>
         THEN <<s.ty.variants[1].data.fields[1].shape>>
         ELSE <<>>

\* mutant: a 2-byte integer is stored as Integer and a 16-byte float as
\* DoublePrecision
primitive_to_data_type_widened(prim, s) ==
    CASE prim = "Boolean" -> OkType("Boolean", FALSE)
      [] prim = "Integer" ->
            IF ~s.layout.sized
            THEN ErrType("UnsupportedType")
            ELSE CASE s.layout.size = 1 -> OkType("SmallInt", FALSE)
                   [] s.layout.size = 2 -> OkType("Integer", FALSE)
                   [] s.layout.size = 4 -> OkType("Integer", FALSE)
                   [] OTHER -> OkType("BigInt", FALSE)
      [] prim = "Float" ->
            IF ~s.layout.sized
            THEN ErrType("UnsupportedType")
            ELSE CASE s.layout.size = 4 -> OkType("Real", FALSE)
                   [] OTHER -> OkType("DoublePrecision", FALSE)
      [] prim = "Char" -> OkType("Char(1)", FALSE)
      [] prim = "Str" -> OkType("Text", FALSE)
      [] OTHER -> ErrType("UnsupportedType")

primitive_to_data_type(prim, s) ==
    CASE prim = "Boolean" -> OkType("Boolean", FALSE)
      [] prim = "Integer" ->
            IF ~s.layout.sized
            THEN ErrType("UnsupportedType")
            ELSE CASE s.layout.size = 1 -> OkType("SmallInt", FALSE)
                   [] s.layout.size = 2 -> OkType("SmallInt", FALSE)
                   [] s.layout.size = 4 -> OkType("Integer", FALSE)
                   [] s.layout.size \in {8, 16} -> OkType("BigInt", FALSE)
                   [] OTHER -> OkType("BigInt", FALSE)
      [] prim = "Float" ->
            IF ~s.layout.sized
            THEN ErrType("UnsupportedType")
            ELSE CASE s.layout.size = 4 -> OkType("Real", FALSE)
                   [] s.layout.size = 8 -> OkType("DoublePrecision", FALSE)
                   [] OTHER -> ErrType("UnsupportedType")
      [] prim = "Char" -> OkType("Char(1)", FALSE)
      [] prim = "Str" -> OkType("Text", FALSE)
      [] OTHER -> ErrType("UnsupportedType")

user_type_to_data_type(user, s) ==
    IF \/ s.type_identifier = sString
       \/ ends_with(s.type_identifier, sColonString)
       \/ contains(s.type_identifier, sAllocString)
    THEN OkType("Text", FALSE)
    ELSE IF \/ contains(s.type_identifier, sVec)
            \/ contains(s.type_identifier, sColonVec)
    THEN OkType("Jsonb", FALSE)
    ELSE IF contains(s.type_identifier, sHashMap)
    THEN OkType("Jsonb", FALSE)
    ELSE CASE user = "Struct" -> OkType("Jsonb", FALSE)
           [] user = "Enum" -> OkType("Integer", FALSE)
           [] OTHER -> ErrType("UnsupportedType")

pointer_to_data_type(s) ==
    IF s.inner # <<>> /\ contains(s.inner[1].type_identifier, sStr)
    THEN OkType("Text", FALSE)
    ELSE IF contains(s.type_identifier, sStr)
         THEN OkType("Text", FALSE)
         ELSE ErrType("UnsupportedType")

RECURSIVE shape_to_data_type(_)
shape_to_data_type(s) ==
    IF is_option_type(s) /\ get_option_inner_type(s) # <<>>
    THEN With(shape_to_data_type(get_option_inner_type(s)[1]),
              LAMBDA r : IF r.ok THEN OkType(r.data_type, TRUE) ELSE r)
    ELSE CASE s.ty.kind = "Primitive" -> primitive_to_data_type(s.ty.prim, s)
           [] s.ty.kind = "User" -> user_type_to_data_type(s.ty.user, s)
           [] s.ty.kind = "Pointer" -> pointer_to_data_type(s)
           [] OTHER -> ErrType("UnsupportedType")

(***************************************************************************)
(* ShapeCompiler: fields -> columns                                        *)
(***************************************************************************)
Column(name, data_type, nullable, identity, comment) ==
    [name |-> name, data_type |-> data_type, default |-> "None",
     nullable |-> nullable, is_generated |-> identity, is_identity |-> identity,
     identity_generation |-> IF identity THEN "Always" ELSE "None",
     comment |-> comment]

\* Result<Column, ConversionError>
field_to_column(field) ==
    With(shape_to_data_type(field.shape), LAMBDA r :
        IF r.ok
        THEN [ok |-> TRUE, err |-> "None",
              column |-> Column(field.name, r.data_type, r.nullable, FALSE, "None")]
        ELSE [ok |-> FALSE, err |-> r.err,
              column |-> Column(field.name, "None", FALSE, FALSE, "None")])

\* the (psql, primary_key) attribute test of process_fields
is_primary_key_attr(attr) == attr.key = "primary_key" /\ attr.ns = <<"psql">>

\* mutant: the namespace of the attribute is not compared
pk_pushes_any_namespace(field) ==
    [j \in 1..Len(SelectSeq(field.attributes,
                            LAMBDA attr : attr.key = "primary_key")) |-> field.name]

\* the names one field pushes to pk_columns: one per matching attribute
pk_pushes(field) ==
    [j \in 1..Len(SelectSeq(field.attributes, is_primary_key_attr)) |-> field.name]

\* the for loop of process_fields, from field i on; None on the first failing
\* field_to_column
RECURSIVE process_fields_loop(_, _, _, _)
process_fields_loop(fields, i, columns, pk_columns) ==
    IF i > Len(fields)
    THEN [ok |-> TRUE, err |-> "None", columns |-> columns, pk_columns |-> pk_columns]
    ELSE With(field_to_column(fields[i]), LAMBDA c :
             IF ~c.ok
             THEN [ok |-> FALSE, err |-> c.err, columns |-> <<>>, pk_columns |-> <<>>]
             ELSE process_fields_loop(fields, i + 1, Append(columns, c.column),
                                      pk_columns \o pk_pushes(fields[i])))

PrimaryKey(columns) == [name |-> <<>>, columns |-> columns]

\* Result<(Vec<Column>, Option<PrimaryKey>), ConversionError>
process_fields(fields, table_name) ==
    With(process_fields_loop(fields, 1, <<>>, <<>>), LAMBDA l :
        IF ~l.ok
        THEN [ok |-> FALSE, err |-> l.err, columns |-> <<>>, primary_key |-> <<>>]
        ELSE IF Len(l.pk_columns) > 1
        THEN [ok |-> FALSE, err |-> "MultiplePrimaryKeys",
              columns |-> <<>>, primary_key |-> <<>>]
        ELSE [ok |-> TRUE, err |-> "None", columns |-> l.columns,
              primary_key |-> IF l.pk_columns # <<>>
                              THEN <<PrimaryKey(l.pk_columns)>>
                              ELSE <<>>])

(***************************************************************************)
(* ShapeCompiler: tables and schemas                                       *)
(***************************************************************************)
Table(name, columns, primary_key, foreign_keys, checks) ==
    [name |-> name, columns |-> columns, primary_key |-> primary_key,
     uniques |-> <<>>, foreign_keys |-> foreign_keys, checks |-> checks,
     indexes |-> <<>>, comment |-> "None"]

PartialSchema(tables) ==
    [tables |-> tables, views |-> <<>>, materialized_views |-> <<>>,
     enums |-> <<>>, domains |-> <<>>, composite_types |-> <<>>,
     sequences |-> <<>>, collations |-> <<>>, functions |-> <<>>]

\* Result<PartialSchema, ConversionError>
OkSchema(tables) == [ok |-> TRUE, err |-> "None", value |-> PartialSchema(tables)]
ErrSchema(kind) == [ok |-> FALSE, err |-> kind, value |-> PartialSchema(<<>>)]

\* mutant: the table name is the type identifier as written
shape_to_table_keep_case(s) ==
    IF ~(s.ty.kind = "User" /\ s.ty.user = "Struct")
    THEN [ok |-> FALSE, err |-> "NotAStruct", table |-> <<>>]
    ELSE With(s.type_identifier, LAMBDA table_name :
         With(process_fields(s.ty.fields, table_name), LAMBDA p :
             IF ~p.ok
             THEN [ok |-> FALSE, err |-> p.err, table |-> <<>>]
             ELSE [ok |-> TRUE, err |-> "None",
                   table |-> <<Table(table_name, p.columns, p.primary_key,
                                     <<>>, <<>>)>>]))

\* Result<Table, ConversionError>
shape_to_table(s) ==
    IF ~(s.ty.kind = "User" /\ s.ty.user = "Struct")
    THEN [ok |-> FALSE, err |-> "NotAStruct", table |-> <<>>]
    ELSE With(to_lowercase(s.type_identifier), LAMBDA table_name :
         With(process_fields(s.ty.fields, table_name), LAMBDA p :
             IF ~p.ok
             THEN [ok |-> FALSE, err |-> p.err, table |-> <<>>]
             ELSE [ok |-> TRUE, err |-> "None",
                   table |-> <<Table(table_name, p.columns, p.primary_key,
                                     <<>>, <<>>)>>]))

\* mutant: a variant is taken for a unit variant when it has no field
is_unit_kind_by_fields(variant) == variant.data.fields = <<>>

is_unit_kind(variant) == variant.data.kind = "Unit"

ForeignKey(fk_col_name, variant_table_name) ==
    [name |-> <<>>, columns |-> <<fk_col_name>>,
     referenced_table |-> [schema |-> <<>>, name |-> variant_table_name],
     referenced_columns |-> <<sId>>,
     on_delete |-> "Cascade", on_update |-> "NoAction"]

\* the variant table of one non-unit variant (the error of process_fields kept)
variant_table(base_name, variant) ==
    With(base_name \o sUnderscore \o to_lowercase(variant.name),
         LAMBDA variant_table_name :
    With(process_fields(variant.data.fields, variant_table_name), LAMBDA p :
        IF ~p.ok
        THEN [ok |-> FALSE, err |-> p.err, table |-> <<>>]
        ELSE [ok |-> TRUE, err |-> "None",
              table |-> <<Table(variant_table_name,
                                <<Column(sId, "BigSerial", FALSE, TRUE, "None")>>
                                    \o p.columns,
                                <<PrimaryKey(<<sId>>)>>, <<>>, <<>>)>>]))

\* the first loop of enum_to_partial_schema ("2. Process variants"), from
\* variant i on
RECURSIVE process_variants(_, _, _, _, _, _)
process_variants(base_name, variants, i, tables, foreign_keys, main_columns) ==
    IF i > Len(variants)
    THEN [ok |-> TRUE, err |-> "None", tables |-> tables,
          foreign_keys |-> foreign_keys, main_columns |-> main_columns]
    ELSE IF is_unit_kind(variants[i])
    THEN process_variants(base_name, variants, i + 1, tables, foreign_keys,
                          main_columns)
    ELSE With(to_lowercase(variants[i].name), LAMBDA variant_name :
         With(base_name \o sUnderscore \o variant_name, LAMBDA variant_table_name :
         With(variant_name \o sUnderscoreId, LAMBDA fk_col_name :
         With(variant_table(base_name, variants[i]), LAMBDA t :
             IF ~t.ok
             THEN [ok |-> FALSE, err |-> t.err, tables |-> <<>>,
                   foreign_keys |-> <<>>, main_columns |-> <<>>]
             ELSE process_variants(
                      base_name, variants, i + 1,
                      tables \o t.table,
                      Append(foreign_keys, ForeignKey(fk_col_name, variant_table_name)),
                      Append(main_columns,
                             Column(fk_col_name, "BigInt", TRUE, FALSE, "None")))))))

\* mutant: the clause tests the 1-based position of the variant
check_part_one_based(index, col_name) ==
    [when_discriminant |-> index + 1, then_is_not_null |-> col_name,
     else_is_null |-> col_name]

\* one clause "(CASE WHEN discriminant = {} THEN {} IS NOT NULL ELSE {} IS NULL END)"
\* with its three format arguments
check_part(index, col_name) ==
    [when_discriminant |-> index, then_is_not_null |-> col_name,
     else_is_null |-> col_name]

\* the second loop of enum_to_partial_schema: enumerate() counts from 0 over
\* all variants, unit variants push nothing
RECURSIVE check_parts(_, _)
check_parts(variants, i) ==
    IF i > Len(variants)
    THEN <<>>
    ELSE IF is_unit_kind(variants[i])
    THEN check_parts(variants, i + 1)
    ELSE <<check_part(i - 1, to_lowercase(variants[i].name) \o sUnderscoreId)>>
             \o check_parts(variants, i + 1)

\* "1=1" for no clause, else the clauses joined by " AND "
check_expression(parts) ==
    IF parts = <<>>
    THEN [literal |-> "1=1", conjuncts |-> <<>>]
    ELSE [literal |-> "None", conjuncts |-> parts]

CheckConstraint(expression) ==
    [name |-> sVariantIntegrity, expression |-> expression, no_inherit |-> FALSE]

enum_to_partial_schema(s) ==
    With(to_lowercase(s.type_identifier), LAMBDA base_name :
    With(process_variants(
             base_name, s.ty.variants, 1, <<>>, <<>>,
             <<Column(sId, "BigSerial", FALSE, TRUE, "None"),
               Column(sDiscriminant, "Integer", FALSE, FALSE,
                      "Discriminant for enum variant")>>),
         LAMBDA v :
        IF ~v.ok
        THEN ErrSchema(v.err)
        ELSE OkSchema(Append(
                 v.tables,
                 Table(base_name, v.main_columns, <<PrimaryKey(<<sId>>)>>,
                       v.foreign_keys,
                       <<CheckConstraint(
                             check_expression(check_parts(s.ty.variants, 1)))>>)))))

\* mutant: a shape that is neither a record nor an enum compiles to a schema
\* without tables
PartialSchemaTryFrom_empty_schema(s) ==
    CASE s.ty.kind = "User" /\ s.ty.user = "Struct" ->
            With(shape_to_table(s),
                 LAMBDA t : IF t.ok THEN OkSchema(t.table) ELSE ErrSchema(t.err))
      [] s.ty.kind = "User" /\ s.ty.user = "Enum" -> enum_to_partial_schema(s)
      [] OTHER -> OkSchema(<<>>)

\* TryFrom<&facet::Shape> for PartialSchema
PartialSchemaTryFrom(s) ==
    CASE s.ty.kind = "User" /\ s.ty.user = "Struct" ->
            With(shape_to_table(s),
                 LAMBDA t : IF t.ok THEN OkSchema(t.table) ELSE ErrSchema(t.err))
      [] s.ty.kind = "User" /\ s.ty.user = "Enum" -> enum_to_partial_schema(s)
      [] OTHER -> ErrSchema("NotAStruct")

(***************************************************************************)
(* facet::Shape values: the inputs of the ShapeCompiler                    *)
(***************************************************************************)
Sized(n) == [sized |-> TRUE, size |-> n]
Unsized == [sized |-> FALSE, size |-> 0]

TyPrimitive(prim, signed) ==
    [kind |-> "Primitive", prim |-> prim, signed |-> signed, user |-> "None",
     fields |-> <<>>, variants |-> <<>>]
TyUser(user, fields, variants) ==
    [kind |-> "User", prim |-> "None", signed |-> FALSE, user |-> user,
     fields |-> fields, variants |-> variants]
TyPointer ==
    [kind |-> "Pointer", prim |-> "None", signed |-> FALSE, user |-> "None",
     fields |-> <<>>, variants |-> <<>>]
TySequence ==
    [kind |-> "Sequence", prim |-> "None", signed |-> FALSE, user |-> "None",
     fields |-> <<>>, variants |-> <<>>]

Shape(type_identifier, def, ty, layout, type_params, inner) ==
    [type_identifier |-> type_identifier, def |-> def, ty |-> ty,
     layout |-> layout, type_params |-> type_params, inner |-> inner]

Field(name, field_shape, attributes) ==
    [name |-> name, shape |-> field_shape, attributes |-> attributes]

Variant(name, kind, fields) ==
    [name |-> name, data |-> [kind |-> kind, fields |-> fields]]

Attr(ns, key) == [ns |-> ns, key |-> key]
PkAttr == Attr(<<"psql">>, "primary_key")

\* widths of the integer and float primitives, in bytes
IntSizes == {1, 2, 4, 8, 16}
FloatSizes == {2, 4, 8, 16}

Digits(n) ==
    CASE n = 1 -> <<"8">>
      [] n = 2 -> <<"1","6">>
      [] n = 4 -> <<"3","2">>
      [] n = 8 -> <<"6","4">>
      [] n = 16 -> <<"1","2","8">>

IntShape(size, signed) ==
    Shape((IF signed THEN <<"i">> ELSE <<"u">>) \o Digits(size), "Scalar",
          TyPrimitive("Integer", signed), Sized(size), <<>>, <<>>)
FloatShape(size) ==
    Shape(<<"f">> \o Digits(size), "Scalar", TyPrimitive("Float", FALSE),
          Sized(size), <<>>, <<>>)

u8Shape == IntShape(1, FALSE)
u32Shape == IntShape(4, FALSE)
u64Shape == IntShape(8, FALSE)
usizeShape ==
    Shape(<<"u","s","i","z","e">>, "Scalar", TyPrimitive("Integer", FALSE), Sized(8), <<>>, <<>>)
boolShape ==
    Shape(<<"b","o","o","l">>, "Scalar", TyPrimitive("Boolean", FALSE), Sized(1), <<>>, <<>>)
charShape ==
    Shape(<<"c","h","a","r">>, "Scalar", TyPrimitive("Char", FALSE), Sized(4), <<>>, <<>>)
strShape ==
    Shape(sStr, "Scalar", TyPrimitive("Str", FALSE), Unsized, <<>>, <<>>)
neverShape ==
    Shape(<<"!">>, "Undefined", TyPrimitive("Never", FALSE), Sized(0), <<>>, <<>>)
UnsizedIntShape ==
    Shape(<<"i","n","t">>, "Scalar", TyPrimitive("Integer", TRUE), Unsized, <<>>, <<>>)
UnsizedFloatShape ==
    Shape(<<"f","l","o","a","t">>, "Scalar", TyPrimitive("Float", FALSE), Unsized, <<>>, <<>>)

PrimitiveShapes ==
    {IntShape(n, sg) : n \in IntSizes, sg \in BOOLEAN}
        \cup {FloatShape(n) : n \in FloatSizes}
        \cup {usizeShape, boolShape, charShape, strShape, neverShape,
              UnsizedIntShape, UnsizedFloatShape}

StringShape ==
    Shape(sString, "Scalar", TyUser("Opaque", <<>>, <<>>), Sized(24), <<>>, <<>>)
VecShape ==
    Shape(sVec, "List", TyUser("Opaque", <<>>, <<>>), Sized(24), <<u8Shape>>, <<>>)
HashMapShape ==
    Shape(sHashMap, "Map", TyUser("Opaque", <<>>, <<>>), Sized(48),
          <<StringShape, u32Shape>>, <<>>)
UuidShape ==
    Shape(<<"U","u","i","d">>, "Scalar", TyUser("Opaque", <<>>, <<>>), Sized(16), <<>>, <<>>)
AddressShape ==
    Shape(<<"A","d","d","r","e","s","s">>, "Undefined",
          TyUser("Struct", <<Field(<<"z","i","p">>, u32Shape, <<>>)>>, <<>>),
          Sized(4), <<>>, <<>>)
\* struct Options { verbose: bool }
OptionsShape ==
    Shape(<<"O","p","t","i","o","n","s">>, "Undefined",
          TyUser("Struct", <<Field(<<"v","e","r","b","o","s","e">>, boolShape, <<>>)>>, <<>>),
          Sized(1), <<>>, <<>>)
\* struct OptionSet<T> { bits: T }, here OptionSet<u8>
OptionSetShape ==
    Shape(<<"O","p","t","i","o","n","S","e","t">>, "Undefined",
          TyUser("Struct", <<Field(<<"b","i","t","s">>, u8Shape, <<>>)>>, <<>>),
          Sized(1), <<u8Shape>>, <<>>)
\* enum Status { Active, Inactive }
StatusShape ==
    Shape(<<"S","t","a","t","u","s">>, "Undefined",
          TyUser("Enum", <<>>, <<Variant(<<"A","c","t","i","v","e">>, "Unit", <<>>),
                                 Variant(<<"I","n","a","c","t","i","v","e">>, "Unit", <<>>)>>),
          Sized(1), <<>>, <<>>)
\* enum PaymentOption { Card(u64), Cash }
PaymentOptionShape ==
    Shape(<<"P","a","y","m","e","n","t","O","p","t","i","o","n">>, "Undefined",
          TyUser("Enum", <<>>,
                 <<Variant(<<"C","a","r","d">>, "Tuple", <<Field(<<"0">>, u64Shape, <<>>)>>),
                   Variant(<<"C","a","s","h">>, "Unit", <<>>)>>),
          Sized(16), <<>>, <<>>)
\* enum VecKind { Dense, Sparse }
VecKindShape ==
    Shape(<<"V","e","c","K","i","n","d">>, "Undefined",
          TyUser("Enum", <<>>, <<Variant(<<"D","e","n","s","e">>, "Unit", <<>>),
                                 Variant(<<"S","p","a","r","s","e">>, "Unit", <<>>)>>),
          Sized(1), <<>>, <<>>)
\* union IntOrFloat { i: u32, f: f32 }
UnionShape ==
    Shape(<<"I","n","t","O","r","F","l","o","a","t">>, "Undefined",
          TyUser("Union", <<Field(<<"i">>, u32Shape, <<>>),
                            Field(<<"f">>, FloatShape(4), <<>>)>>, <<>>),
          Sized(4), <<>>, <<>>)
\* &str, *const u8 and [u8; 4]
RefStrShape == Shape(<<"&","s","t","r">>, "Undefined", TyPointer, Sized(16), <<>>, <<>>)
RawPointerShape ==
    Shape(<<"*","c","o","n","s","t"," ","u","8">>, "Undefined", TyPointer, Sized(8), <<>>, <<>>)
ArrayShape ==
    Shape(<<"[","u","8",";"," ","4","]">>, "Array", TySequence, Sized(4), <<u8Shape>>, <<>>)

UserShapes ==
    {StringShape, VecShape, HashMapShape, UuidShape, AddressShape, OptionsShape,
     OptionSetShape, StatusShape, PaymentOptionShape, VecKindShape, UnionShape}

PlainShapes ==
    PrimitiveShapes \cup UserShapes \cup {RefStrShape, RawPointerShape, ArrayShape}

\* Option<T>: identifier "Option", Def::Option, T as the one type parameter
OptionShape(t) ==
    Shape(sOption, "Option", TyUser("Opaque", <<>>, <<>>), t.layout, <<t>>, <<>>)

\* the shapes a field may have
FieldShapes ==
    PlainShapes
        \cup {OptionShape(t) : t \in PlainShapes}
        \cup {OptionShape(OptionShape(u32Shape))}

(***************************************************************************)
(* Bounds and the top-level shapes handed to the compiler                  *)
(***************************************************************************)
MaxFields == 2
MaxVariants == 3
MaxAttrs == 2

SeqsUpTo(S, n) == UNION {[1..k -> S] : k \in 0..n}

\* the attributes a field may carry besides none
AttrAlphabet == {PkAttr, Attr(<<>>, "primary_key"), Attr(<<"psql">>, "unique")}

\* fields of records and of enum variants: a mappable integer, a mappable
\* string and an unmappable raw pointer, tagged primary key or not
RecordFieldNames == {sId, <<"e","m","a","i","l">>}
RecordFieldShapes == {u64Shape, StringShape, RawPointerShape}
RecordFields ==
    {Field(n, t, a) : n \in RecordFieldNames, t \in RecordFieldShapes,
                      a \in {<<>>, <<PkAttr>>}}

StructShape(type_identifier, fields) ==
    Shape(type_identifier, "Undefined", TyUser("Struct", fields, <<>>),
          Sized(8), <<>>, <<>>)
EnumShape(type_identifier, variants) ==
    Shape(type_identifier, "Undefined", TyUser("Enum", <<>>, variants),
          Sized(8), <<>>, <<>>)

\* struct Rec { x: T } for every field shape T
OneFieldRecords ==
    {StructShape(<<"R","e","c">>, <<Field(<<"x">>, t, <<>>)>>) : t \in FieldShapes}

\* struct Keyed { id: u64 } with every attribute list on id
TaggedRecords ==
    {StructShape(<<"K","e","y","e","d">>, <<Field(sId, u64Shape, a)>>) :
        a \in SeqsUpTo(AttrAlphabet, MaxAttrs)}

\* struct User { ... } with up to MaxFields fields
Records == {StructShape(<<"U","s","e","r">>, fs) : fs \in SeqsUpTo(RecordFields, MaxFields)}

\* enum Thingy with up to MaxVariants variants whose names may differ in
\* case only
VariantNames == {<<"A">>, <<"a">>, <<"B">>}
VariantPayloads ==
    {[kind |-> "Unit", fields |-> <<>>],
     [kind |-> "Struct", fields |-> <<>>],
     [kind |-> "Struct", fields |-> <<Field(<<"a">>, usizeShape, <<>>)>>],
     [kind |-> "Tuple", fields |-> <<Field(<<"0">>, u32Shape, <<>>),
                                     Field(<<"1">>, StringShape, <<>>)>>]}
Variants == {[name |-> n, data |-> d] : n \in VariantNames, d \in VariantPayloads}
Enums == {EnumShape(<<"T","h","i","n","g","y">>, vs) : vs \in SeqsUpTo(Variants, MaxVariants)}

\* enum Ev { V ... } with one variant of every kind over the record fields
NonUnitKinds == {"Struct", "Tuple", "TupleStruct"}
OneVariantEnums ==
    {EnumShape(<<"E","v">>, <<Variant(<<"V">>, k, fs)>>) :
        k \in NonUnitKinds, fs \in SeqsUpTo(RecordFields, MaxFields)}

CompileInputs ==
    FieldShapes \cup OneFieldRecords \cup TaggedRecords \cup Records
        \cup Enums \cup OneVariantEnums

(***************************************************************************)
(* State machine of one compilation                                        *)
(***************************************************************************)
NoShape ==
    Shape(<<>>, "Undefined", TyUser("Opaque", <<>>, <<>>), Unsized, <<>>, <<>>)
NoSchema == [ok |-> FALSE, err |-> "Pending", value |-> PartialSchema(<<>>)]
NoOwnedShape ==
    [type_identifier |-> <<>>, def |-> [kind |-> "Undefined", t |-> <<>>, n |-> 0],
     ty |-> [kind |-> "User", prim |-> "None", signed |-> FALSE, t |-> <<>>,
             user |-> "Opaque", fields |-> <<>>, variants |-> <<>>]]
NoDiff == [kind |-> "Pending"]
NoAlter ==
    [ok |-> FALSE, err |-> [kind |-> "Pending", arg |-> <<>>], statement |-> <<>>]

InitCompile ==
    /\ pc = "ready"
    /\ shape \in CompileInputs
    /\ schema = NoSchema
    /\ from = NoOwnedShape
    /\ to = NoOwnedShape
    /\ diff = NoDiff
    /\ alter = NoAlter
    /\ schema_name = <<>>
    /\ stmts = <<>>
    /\ rows = {}
    /\ cow = <<>>
    /\ owned = <<>>
    /\ cow2 = <<>>
    /\ owned2 = <<>>

\* PartialSchema::try_from(shape)
Compile ==
    /\ pc = "ready"
    /\ schema' = PartialSchemaTryFrom(shape)
    /\ pc' = "compiled"
    /\ UNCHANGED <<shape, from, to, diff, alter, schema_name, stmts, rows,
                 cow, owned, cow2, owned2>>

NextCompile == Compile

SpecCompile == InitCompile /\ [][NextCompile]_vars

(***************************************************************************)
(* Vocabulary of the claims about the ShapeCompiler                        *)
(***************************************************************************)
Compiled == pc = "compiled"
IsRecordShape(s) == s.ty.kind = "User" /\ s.ty.user = "Struct"
IsEnumShape(s) == s.ty.kind = "User" /\ s.ty.user = "Enum"
CompiledRecord == Compiled /\ IsRecordShape(shape)
CompiledEnum == Compiled /\ IsEnumShape(shape)
Tables == schema.value.tables
Range(f) == {f[i] : i \in DOMAIN f}

\* the positions (from 1) of the non-unit variants of an enum, in
\* declaration order
NonUnitPositions(variants) ==
    SelectSeq([i \in 1..Len(variants) |-> i],
              LAMBDA i : variants[i].data.kind # "Unit")

\* the names claimed for the table and the FK column of a variant
VariantTableName(s, variant) ==
    to_lowercase(s.type_identifier) \o <<"_">> \o to_lowercase(variant.name)
VariantFkColumn(variant) == to_lowercase(variant.name) \o <<"_","i","d">>

IsIdentityId(column) ==
    /\ column.name = <<"i","d">>
    /\ column.is_identity
    /\ ~column.nullable

\* the fields carrying the (psql, primary_key) tag, and the number of
\* occurrences of the tag over all fields
HasPkTag(f) ==
    \E a \in 1..Len(f.attributes) :
        f.attributes[a].ns = <<"psql">> /\ f.attributes[a].key = "primary_key"
TaggedPositions(fields) == {i \in 1..Len(fields) : HasPkTag(fields[i])}
PkTagCount(f) ==
    Cardinality({a \in 1..Len(f.attributes) :
        f.attributes[a].ns = <<"psql">> /\ f.attributes[a].key = "primary_key"})
RECURSIVE SumPkTags(_, _)
SumPkTags(fields, i) ==
    IF i > Len(fields) THEN 0 ELSE PkTagCount(fields[i]) + SumPkTags(fields, i + 1)
AllFieldsMappable(fields) ==
    \A i \in 1..Len(fields) : shape_to_data_type(fields[i].shape).ok

\* the field lists process_fields accepts: every field mappable and at most
\* one occurrence of the primary-key tag
FieldsAccepted(fields) ==
    AllFieldsMappable(fields) /\ SumPkTags(fields, 1) <= 1

\* the enums whose non-unit variants all have accepted fields
VariantsAccepted(variants) ==
    \A i \in 1..Len(variants) :
        variants[i].data.kind # "Unit" => FieldsAccepted(variants[i].data.fields)

\* C1: an enum whose non-unit variants have accepted fields compiles, and a
\* compiled enum with K non-unit variants has K+1 tables: the K variant
\* tables '<type>_<variant>' (identity id primary key, then one column per
\* variant field) and the main table (id, discriminant, one nullable BigInt
\* '<variant>_id' per non-unit variant in declaration order, K foreign keys
\* to '<type>_<variant>'.id, one CHECK); unit variants add no table and no
\* FK column.
C1_EnumTables ==
    (CompiledEnum /\ (schema.ok \/ VariantsAccepted(shape.ty.variants))) =>
        LET vs == shape.ty.variants
            nu == NonUnitPositions(vs)
            K == Len(nu)
            mains == {m \in 1..Len(Tables) :
                        Tables[m].name = to_lowercase(shape.type_identifier)}
        IN  /\ schema.ok
            /\ Len(Tables) = K + 1
            /\ Cardinality(mains) = 1
            /\ \A m \in mains :
                 LET main == Tables[m]
                     others == [j \in 1..K |-> Tables[IF j < m THEN j ELSE j + 1]]
                 IN  /\ Len(main.columns) = K + 2
                     /\ main.columns[1].name = <<"i","d">>
                     /\ main.columns[2].name = sDiscriminant
                     /\ \A k \in 1..K :
                          /\ main.columns[k + 2].name = VariantFkColumn(vs[nu[k]])
                          /\ main.columns[k + 2].nullable
                          /\ main.columns[k + 2].data_type = "BigInt"
                     /\ Len(main.foreign_keys) = K
                     /\ \A k \in 1..K :
                          /\ main.foreign_keys[k].columns = <<VariantFkColumn(vs[nu[k]])>>
                          /\ main.foreign_keys[k].referenced_table.name
                                = VariantTableName(shape, vs[nu[k]])
                          /\ main.foreign_keys[k].referenced_columns = <<sId>>
                     /\ Len(main.checks) = 1
                     /\ \A k \in 1..K :
                          /\ others[k].name = VariantTableName(shape, vs[nu[k]])
                          /\ others[k].primary_key # <<>>
                          /\ others[k].primary_key[1].columns = <<sId>>
                          /\ IsIdentityId(others[k].columns[1])
                          /\ Len(others[k].columns) = 1 + Len(vs[nu[k]].data.fields)
                          /\ \A f \in 1..Len(vs[nu[k]].data.fields) :
                               others[k].columns[f + 1].name
                                   = vs[nu[k]].data.fields[f].name
                     /\ \A u \in 1..Len(vs) :
                          (/\ vs[u].data.kind = "Unit"
                           /\ \A k \in 1..K :
                                to_lowercase(vs[nu[k]].name) # to_lowercase(vs[u].name))
                          => /\ \A t \in 1..Len(Tables) :
                                  Tables[t].name # VariantTableName(shape, vs[u])
                             /\ \A c \in 1..Len(main.columns) :
                                  main.columns[c].name # VariantFkColumn(vs[u])

\* C1 witness: the enum { A {a}, B (0, 1), a } with a unit variant compiled to
\* three tables
C1_Witness ==
    /\ CompiledEnum
    /\ schema.ok
    /\ Len(shape.ty.variants) = 3
    /\ NonUnitPositions(shape.ty.variants) = <<1, 2>>
    /\ Len(shape.ty.variants[1].data.fields) = 1
    /\ Len(shape.ty.variants[2].data.fields) = 2
    /\ Len(Tables) = 3

\* a row of the main table: its discriminant and the set of the columns that
\* are not NULL in it
MainTable ==
    Tables[CHOOSE m \in 1..Len(Tables) :
              Tables[m].name = to_lowercase(shape.type_identifier)]
FkColumnNames(main) == {main.columns[c].name : c \in 3..Len(main.columns)}
Discriminants == (0 - 1)..(Len(shape.ty.variants) + 1)

\* SQL value of "(CASE WHEN discriminant = i THEN c IS NOT NULL ELSE c' IS NULL END)"
EvalCase(part, d, non_null) ==
    IF d = part.when_discriminant
    THEN part.then_is_not_null \in non_null
    ELSE part.else_is_null \notin non_null

\* SQL value of a CHECK expression on a row
EvalCheck(expression, d, non_null) ==
    IF expression.literal = "1=1"
    THEN TRUE
    ELSE \A j \in 1..Len(expression.conjuncts) :
            EvalCase(expression.conjuncts[j], d, non_null)

\* the lockstep condition: the FK column of every non-unit variant is non-null
\* exactly when the discriminant is that variant's declaration index
Lockstep(variants, d, non_null) ==
    \A i \in 1..Len(variants) :
        variants[i].data.kind # "Unit" =>
            ((VariantFkColumn(variants[i]) \in non_null) <=> (d = i - 1))

\* C2: variant lockstep. A row of the main table of a compiled enum satisfies
\* the variant_integrity CHECK iff the FK column of the variant with
\* declaration index d is non-null and every other FK column is null (all FK
\* columns null when d is the index of a unit variant).
C2_VariantLockstep ==
    (CompiledEnum /\ schema.ok) =>
        /\ Len(MainTable.checks) = 1
        /\ MainTable.checks[1].name = sVariantIntegrity
        /\ \A d \in Discriminants :
             \A non_null \in SUBSET FkColumnNames(MainTable) :
                EvalCheck(MainTable.checks[1].expression, d, non_null)
                    <=> Lockstep(shape.ty.variants, d, non_null)

\* C2 witness: an enum with a unit variant at index 2 and two FK columns; the
\* CHECK accepts the row with discriminant 2 and every FK column null and
\* rejects the rows with discriminant 2 and an FK column set
C2_Witness ==
    /\ CompiledEnum
    /\ schema.ok
    /\ Len(shape.ty.variants) = 3
    /\ NonUnitPositions(shape.ty.variants) = <<1, 2>>
    /\ Cardinality(FkColumnNames(MainTable)) = 2
    /\ EvalCheck(MainTable.checks[1].expression, 2, {})
    /\ EvalCheck(MainTable.checks[1].expression, 0,
                 {VariantFkColumn(shape.ty.variants[1])})
    /\ \A c \in FkColumnNames(MainTable) :
          ~EvalCheck(MainTable.checks[1].expression, 2, {c})

\* the fields of the compiled record and the columns of its table
RecordFieldsOf(s) == s.ty.fields
RecordTable == Tables[1]

InnerColumnType(s) == shape_to_data_type(s.type_params[1])

\* C7 (as claimed): the column of a field is nullable iff the Def of the field
\* shape is Option, and then has the data type its inner shape maps to.
C7_NullableIffDefOption ==
    (CompiledRecord /\ schema.ok) =>
        \A i \in 1..Len(RecordFieldsOf(shape)) :
            LET fs == RecordFieldsOf(shape)[i].shape
                col == RecordTable.columns[i]
            IN  /\ col.nullable <=> (fs.def = "Option")
                /\ fs.def = "Option" => col.data_type = InnerColumnType(fs).data_type

\* the integer and float widths the claim names, with their SQL types
IntegerTypeOfWidth(n) ==
    CASE n \in {1, 2} -> "SmallInt"
      [] n = 4 -> "Integer"
      [] n \in {8, 16} -> "BigInt"
FloatTypeOfWidth(n) ==
    CASE n = 4 -> "Real"
      [] n = 8 -> "DoublePrecision"

IsNumericField(f) ==
    f.shape.ty.kind = "Primitive" /\ f.shape.ty.prim \in {"Integer", "Float"}

\* C8: in a record struct Rec { x: T } with T a primitive number, x becomes a
\* non-nullable SmallInt (1 or 2 bytes), Integer (4) or BigInt (8 or 16) for
\* an integer, Real (4) or DoublePrecision (8) for a float; any other float
\* width and any number without a known size is Err(UnsupportedType).
C8_NumericWidths ==
    (CompiledRecord /\ Len(RecordFieldsOf(shape)) = 1
        /\ IsNumericField(RecordFieldsOf(shape)[1])
        /\ RecordFieldsOf(shape)[1].attributes = <<>>) =>
        LET fs == RecordFieldsOf(shape)[1].shape
            n == fs.layout.size
        IN  /\ (fs.layout.sized /\ fs.ty.prim = "Integer" /\ n \in {1, 2, 4, 8, 16}) =>
                 /\ schema.ok
                 /\ RecordTable.columns[1].data_type = IntegerTypeOfWidth(n)
                 /\ ~RecordTable.columns[1].nullable
            /\ (fs.layout.sized /\ fs.ty.prim = "Float" /\ n \in {4, 8}) =>
                 /\ schema.ok
                 /\ RecordTable.columns[1].data_type = FloatTypeOfWidth(n)
                 /\ ~RecordTable.columns[1].nullable
            /\ (fs.layout.sized /\ fs.ty.prim = "Float" /\ n \notin {4, 8}) =>
                 /\ ~schema.ok
                 /\ schema.err = "UnsupportedType"
            /\ ~fs.layout.sized =>
                 /\ ~schema.ok
                 /\ schema.err = "UnsupportedType"

\* C8 witness: a 2-byte integer field compiled to SmallInt
C8_Witness ==
    /\ CompiledRecord
    /\ Len(RecordFieldsOf(shape)) = 1
    /\ RecordFieldsOf(shape)[1].shape.ty.prim = "Integer"
    /\ RecordFieldsOf(shape)[1].shape.layout = Sized(2)
    /\ schema.ok
    /\ RecordTable.columns[1].data_type = "SmallInt"

\* C9 (as claimed): no tagged field, no primary key; one tagged field, the
\* primary key is that field; more than one tagged field,
\* Err(MultiplePrimaryKeys) and no table.
C9_PrimaryKeyAsClaimed ==
    CompiledRecord =>
        LET tagged == TaggedPositions(RecordFieldsOf(shape))
        IN  /\ (schema.ok /\ tagged = {}) => RecordTable.primary_key = <<>>
            /\ (schema.ok /\ Cardinality(tagged) = 1) =>
                 /\ RecordTable.primary_key # <<>>
                 /\ \A i \in tagged :
                      RecordTable.primary_key[1].columns
                          = <<RecordFieldsOf(shape)[i].name>>
            /\ Cardinality(tagged) > 1 =>
                 /\ ~schema.ok
                 /\ schema.err = "MultiplePrimaryKeys"
                 /\ Tables = <<>>

\* C9 (amended): for a record whose fields are all mappable: no primary-key
\* tag, the table has no primary key; exactly one occurrence of the tag, the
\* primary key is exactly the tagged field; more than one occurrence (on
\* several fields or repeated on one), Err(MultiplePrimaryKeys) and no table.
\* With an unmappable field the result is Err(UnsupportedType) whatever the
\* tags.
C9_PrimaryKey ==
    CompiledRecord =>
        LET fields == RecordFieldsOf(shape)
            tagged == TaggedPositions(fields)
            count == SumPkTags(fields, 1)
        IN  /\ (AllFieldsMappable(fields) /\ count = 0) =>
                 /\ schema.ok
                 /\ RecordTable.primary_key = <<>>
            /\ (AllFieldsMappable(fields) /\ count = 1) =>
                 /\ schema.ok
                 /\ RecordTable.primary_key # <<>>
                 /\ \A i \in tagged :
                      RecordTable.primary_key[1].columns = <<fields[i].name>>
            /\ (AllFieldsMappable(fields) /\ count > 1) =>
                 /\ ~schema.ok
                 /\ schema.err = "MultiplePrimaryKeys"
                 /\ Tables = <<>>
            /\ ~AllFieldsMappable(fields) =>
                 /\ ~schema.ok
                 /\ schema.err = "UnsupportedType"
                 /\ Tables = <<>>

\* C9 witness: two mappable fields both tagged primary key, refused with
\* MultiplePrimaryKeys
C9_Witness ==
    /\ CompiledRecord
    /\ Cardinality(TaggedPositions(RecordFieldsOf(shape))) = 2
    /\ AllFieldsMappable(RecordFieldsOf(shape))
    /\ schema.err = "MultiplePrimaryKeys"

\* C10 (as claimed): a record field whose payload is an enum that is not an
\* Option becomes a non-nullable Integer column, whatever the identifier of
\* the enum.
C10_EnumFieldIsInteger ==
    CompiledRecord =>
        \A i \in 1..Len(RecordFieldsOf(shape)) :
            LET fs == RecordFieldsOf(shape)[i].shape
            IN  (IsEnumShape(fs) /\ fs.def # "Option") =>
                    /\ schema.ok
                    /\ RecordTable.columns[i].data_type = "Integer"
                    /\ ~RecordTable.columns[i].nullable

(***************************************************************************)
(* OwnedShape values (src/src/owned_shape.rs)                              *)
(***************************************************************************)
\* OwnedDef: Map carries <<k, v>>, Set, List, Array and Option carry <<t>>
OwnedDef(kind, t, n) == [kind |-> kind, t |-> t, n |-> n]
DefUndefined == OwnedDef("Undefined", <<>>, 0)
DefScalar == OwnedDef("Scalar", <<>>, 0)

OwnedPrimitive(prim, signed) ==
    [kind |-> "Primitive", prim |-> prim, signed |-> signed, t |-> <<>>,
     user |-> "None", fields |-> <<>>, variants |-> <<>>]
OwnedSequence(t) ==
    [kind |-> "Sequence", prim |-> "None", signed |-> FALSE, t |-> <<t>>,
     user |-> "None", fields |-> <<>>, variants |-> <<>>]
OwnedUser(user, fields, variants) ==
    [kind |-> "User", prim |-> "None", signed |-> FALSE, t |-> <<>>,
     user |-> user, fields |-> fields, variants |-> variants]

OwnedShape(type_identifier, def, ty) ==
    [type_identifier |-> type_identifier, def |-> def, ty |-> ty]
OwnedField(name, field_shape) == [name |-> name, shape |-> field_shape, doc |-> <<>>]
OwnedVariant(name, fields) ==
    [name |-> name, data |-> [fields |-> fields], doc |-> <<>>]

\* format!("{:?}", p) of an OwnedPrimitiveType
DebugPrimitive(ty) ==
    CASE ty.prim = "Boolean" -> "Boolean"
      [] ty.prim = "Integer" ->
            IF ty.signed
            THEN "Numeric(Integer { signed: true })"
            ELSE "Numeric(Integer { signed: false })"
      [] ty.prim = "Float" -> "Numeric(Float)"
      [] ty.prim = "Char" -> "Textual(Char)"
      [] ty.prim = "Str" -> "Textual(Str)"
      [] ty.prim = "Never" -> "Never"

(***************************************************************************)
(* SchemaDiffer (src/src/diff.rs)                                          *)
(***************************************************************************)
RECURSIVE shapes_equal(_, _), defs_equal(_, _), types_equal(_, _),
          fields_equal(_, _)

\* a.len() == b.len() and the zip of the two field lists all equal
fields_equal(a, b) ==
    /\ Len(a) = Len(b)
    /\ \A i \in 1..Len(a) :
          a[i].name = b[i].name /\ shapes_equal(a[i].shape, b[i].shape)

defs_equal(a, b) ==
    CASE a.kind = "Undefined" /\ b.kind = "Undefined" -> TRUE
      [] a.kind = "Scalar" /\ b.kind = "Scalar" -> TRUE
      [] a.kind = "Map" /\ b.kind = "Map" ->
            shapes_equal(a.t[1], b.t[1]) /\ shapes_equal(a.t[2], b.t[2])
      [] a.kind = "Set" /\ b.kind = "Set" -> shapes_equal(a.t[1], b.t[1])
      [] a.kind = "List" /\ b.kind = "List" -> shapes_equal(a.t[1], b.t[1])
      [] a.kind = "Array" /\ b.kind = "Array" ->
            a.n = b.n /\ shapes_equal(a.t[1], b.t[1])
      [] a.kind = "Option" /\ b.kind = "Option" -> shapes_equal(a.t[1], b.t[1])
      [] OTHER -> FALSE

\* mutant: the Union arm is missing, two unions fall to the catch-all
types_equal_no_union(a, b) ==
    CASE a.kind = "Primitive" /\ b.kind = "Primitive" ->
            DebugPrimitive(a) = DebugPrimitive(b)
      [] a.kind = "Sequence" /\ b.kind = "Sequence" -> shapes_equal(a.t[1], b.t[1])
      [] a.kind = "User" /\ b.kind = "User" ->
            CASE a.user = "Struct" /\ b.user = "Struct" ->
                    fields_equal(a.fields, b.fields)
              [] a.user = "Enum" /\ b.user = "Enum" ->
                    /\ Len(a.variants) = Len(b.variants)
                    /\ \A i \in 1..Len(a.variants) :
                          /\ a.variants[i].name = b.variants[i].name
                          /\ fields_equal(a.variants[i].data.fields,
                                          b.variants[i].data.fields)
              [] a.user = "Opaque" /\ b.user = "Opaque" -> TRUE
              [] OTHER -> FALSE
      [] OTHER -> FALSE

types_equal(a, b) ==
    CASE a.kind = "Primitive" /\ b.kind = "Primitive" ->
            DebugPrimitive(a) = DebugPrimitive(b)
      [] a.kind = "Sequence" /\ b.kind = "Sequence" -> shapes_equal(a.t[1], b.t[1])
      [] a.kind = "User" /\ b.kind = "User" ->
            CASE a.user = "Struct" /\ b.user = "Struct" ->
                    fields_equal(a.fields, b.fields)
              [] a.user = "Enum" /\ b.user = "Enum" ->
                    /\ Len(a.variants) = Len(b.variants)
                    /\ \A i \in 1..Len(a.variants) :
                          /\ a.variants[i].name = b.variants[i].name
                          /\ fields_equal(a.variants[i].data.fields,
                                          b.variants[i].data.fields)
              [] a.user = "Union" /\ b.user = "Union" ->
                    fields_equal(a.fields, b.fields)
              [] a.user = "Opaque" /\ b.user = "Opaque" -> TRUE
              [] OTHER -> FALSE
      [] OTHER -> FALSE

shapes_equal(a, b) ==
    IF a.type_identifier # b.type_identifier
    THEN FALSE
    ELSE IF ~defs_equal(a.def, b.def)
    THEN FALSE
    ELSE types_equal(a.ty, b.ty)

DiffEqual == [kind |-> "Equal"]
DiffDifferent(a, b) == [kind |-> "Different", from |-> a, to |-> b]
DiffUser(a, b, value) == [kind |-> "User", from |-> a, to |-> b, value |-> value]

\* mutant: two sequences are reported as Different
DiffSequence_as_different(a, b) == [kind |-> "Different", from |-> a, to |-> b]

DiffSequence(a, b) == [kind |-> "Sequence", from |-> a, to |-> b]

\* Diff::is_equal
is_equal(d) == d.kind = "Equal"

\* the HashMap collected from (name, field) pairs: a later field of the same
\* name replaces an earlier one
to_fields(fields) ==
    [n \in {fields[i].name : i \in 1..Len(fields)} |->
        fields[CHOOSE i \in 1..Len(fields) :
                  /\ fields[i].name = n
                  /\ \A j \in (i + 1)..Len(fields) : fields[j].name # n]]

\* HashMap::insert
MapInsert(map, key, value) ==
    [k \in DOMAIN map \cup {key} |-> IF k = key THEN value ELSE map[k]]

RECURSIVE DiffNew(_, _), compare_from_fields(_, _, _, _)

\* the loop "for from_field in &from_struct.fields", from field i on, on the
\* accumulated updates, deletions and unchanged
compare_from_fields(from_fields, to_map, i, acc) ==
    IF i > Len(from_fields)
    THEN acc
    ELSE LET name == from_fields[i].name
         IN  IF name \in DOMAIN to_map
             THEN LET field_diff == DiffNew(from_fields[i].shape, to_map[name].shape)
                  IN  IF is_equal(field_diff)
                      THEN compare_from_fields(from_fields, to_map, i + 1,
                               [acc EXCEPT !.unchanged = @ \cup {name}])
                      ELSE compare_from_fields(from_fields, to_map, i + 1,
                               [acc EXCEPT !.updates = MapInsert(@, name, field_diff)])
             ELSE compare_from_fields(from_fields, to_map, i + 1,
                      [acc EXCEPT !.deletions = @ \cup {name}])

\* mutant: no field of to is reported as inserted
find_insertions_none(from_fields, to_fields_list) == {}

\* mutant: every field of to is reported as inserted
find_insertions_all(from_fields, to_fields_list) ==
    {to_fields_list[i].name : i \in 1..Len(to_fields_list)}

\* the insertions loop: the names of to that no from field has
find_insertions(from_fields, to_fields_list) ==
    {to_fields_list[i].name : i \in 1..Len(to_fields_list)}
        \ {from_fields[i].name : i \in 1..Len(from_fields)}

\* Diff::new
DiffNew(a, b) ==
    IF shapes_equal(a, b)
    THEN DiffEqual
    ELSE CASE a.ty.kind = "User" /\ a.ty.user = "Struct"
                /\ b.ty.kind = "User" /\ b.ty.user = "Struct" ->
                LET acc == compare_from_fields(
                               a.ty.fields, to_fields(b.ty.fields), 1,
                               [updates |-> <<>>, deletions |-> {}, unchanged |-> {}])
                IN  DiffUser(a, b,
                        [updates |-> acc.updates,
                         deletions |-> acc.deletions,
                         insertions |-> find_insertions(a.ty.fields, b.ty.fields),
                         unchanged |-> acc.unchanged])
           [] a.ty.kind = "User" /\ a.ty.user = "Enum"
                /\ b.ty.kind = "User" /\ b.ty.user = "Enum" -> DiffDifferent(a, b)
           [] a.ty.kind = "Sequence" /\ b.ty.kind = "Sequence" -> DiffSequence(a, b)
           [] OTHER -> DiffDifferent(a, b)

(***************************************************************************)
(* The shapes handed to the differ                                         *)
(***************************************************************************)
MaxDiffFields == 2

o_u32 == OwnedShape(<<"u","3","2">>, DefScalar, OwnedPrimitive("Integer", FALSE))
o_i32 == OwnedShape(<<"i","3","2">>, DefScalar, OwnedPrimitive("Integer", TRUE))
o_f64 == OwnedShape(<<"f","6","4">>, DefScalar, OwnedPrimitive("Float", FALSE))
o_bool == OwnedShape(<<"b","o","o","l">>, DefScalar, OwnedPrimitive("Boolean", FALSE))
o_char == OwnedShape(<<"c","h","a","r">>, DefScalar, OwnedPrimitive("Char", FALSE))
o_str == OwnedShape(sStr, DefScalar, OwnedPrimitive("Str", FALSE))
o_never == OwnedShape(<<"!">>, DefUndefined, OwnedPrimitive("Never", FALSE))
o_String == OwnedShape(sString, DefScalar, OwnedUser("Opaque", <<>>, <<>>))
o_Uuid == OwnedShape(<<"U","u","i","d">>, DefScalar, OwnedUser("Opaque", <<>>, <<>>))

o_Option(t) ==
    OwnedShape(sOption, OwnedDef("Option", <<t>>, 0), OwnedUser("Opaque", <<>>, <<>>))
o_Vec(t) ==
    OwnedShape(sVec, OwnedDef("List", <<t>>, 0), OwnedUser("Opaque", <<>>, <<>>))
o_Set(t) ==
    OwnedShape(<<"H","a","s","h","S","e","t">>, OwnedDef("Set", <<t>>, 0), OwnedUser("Opaque", <<>>, <<>>))
o_Map(k, v) ==
    OwnedShape(sHashMap, OwnedDef("Map", <<k, v>>, 0), OwnedUser("Opaque", <<>>, <<>>))
\* [T; n]: the same identifier for every length
o_Array(t, n) ==
    OwnedShape(<<"a","r","r","a","y">>, OwnedDef("Array", <<t>>, n), OwnedSequence(t))
o_Struct(type_identifier, fields) ==
    OwnedShape(type_identifier, DefUndefined, OwnedUser("Struct", fields, <<>>))
o_Enum(type_identifier, variants) ==
    OwnedShape(type_identifier, DefUndefined, OwnedUser("Enum", <<>>, variants))
o_Union(type_identifier, fields) ==
    OwnedShape(type_identifier, DefUndefined, OwnedUser("Union", fields, <<>>))

\* one shape at least of every Def and of every Type, and pairs of them that
\* differ in one place only
VariedShapes ==
    {o_u32, o_i32, o_f64, o_bool, o_char, o_str, o_never, o_String, o_Uuid,
     o_Option(o_u32), o_Option(o_String), o_Option(o_Option(o_u32)),
     o_Vec(o_u32), o_Vec(o_String), o_Set(o_u32), o_Set(o_bool),
     o_Map(o_String, o_u32), o_Map(o_String, o_bool), o_Map(o_u32, o_u32),
     o_Array(o_u32, 2), o_Array(o_u32, 3), o_Array(o_bool, 2),
     o_Struct(<<"P">>, <<>>),
     o_Struct(<<"Q">>, <<>>),
     o_Struct(<<"Q">>, <<OwnedField(<<"a">>, o_u32)>>),
     o_Struct(<<"Q">>, <<OwnedField(<<"a">>, o_Option(o_u32))>>),
     o_Enum(<<"E">>, <<>>),
     o_Enum(<<"E">>, <<OwnedVariant(<<"A">>, <<>>), OwnedVariant(<<"B">>, <<>>)>>),
     o_Enum(<<"E">>, <<OwnedVariant(<<"A">>, <<OwnedField(<<"0">>, o_u32)>>),
                        OwnedVariant(<<"B">>, <<>>)>>),
     o_Enum(<<"E">>, <<OwnedVariant(<<"A">>, <<OwnedField(<<"0">>, o_i32)>>),
                        OwnedVariant(<<"B">>, <<>>)>>),
     o_Union(<<"U">>, <<OwnedField(<<"i">>, o_u32), OwnedField(<<"f">>, o_f64)>>),
     o_Union(<<"U">>, <<OwnedField(<<"i">>, o_u32), OwnedField(<<"f">>, o_u32)>>)}

\* the records struct P { ... } of up to MaxDiffFields fields named a or b
\* (a name may repeat), each a number, or a nested record In in two versions
DiffFieldNames == {<<"a">>, <<"b">>}
DiffFieldShapes ==
    {o_u32,
     o_Struct(<<"I","n">>, <<OwnedField(<<"x">>, o_u32)>>),
     o_Struct(<<"I","n">>, <<OwnedField(<<"x">>, o_String)>>)}
DiffFields == {OwnedField(n, t) : n \in DiffFieldNames, t \in DiffFieldShapes}
DiffRecords == {o_Struct(<<"P">>, fs) : fs \in SeqsUpTo(DiffFields, MaxDiffFields)}

\* the record with the field at position k renamed to c
RenamedAt(record, k) ==
    o_Struct(record.type_identifier,
             [record.ty.fields EXCEPT ![k].name = <<"c">>])
Renamings(record) == {RenamedAt(record, k) : k \in 1..Len(record.ty.fields)}

(***************************************************************************)
(* State machine of one diff                                               *)
(***************************************************************************)
InitDiff ==
    /\ pc = "ready"
    /\ shape = NoShape
    /\ schema = NoSchema
    /\ \/ from \in VariedShapes /\ to \in VariedShapes
       \/ from \in DiffRecords /\ to \in DiffRecords
       \/ from \in DiffRecords /\ to \in Renamings(from)
    /\ diff = NoDiff
    /\ alter = NoAlter
    /\ schema_name = <<>>
    /\ stmts = <<>>
    /\ rows = {}
    /\ cow = <<>>
    /\ owned = <<>>
    /\ cow2 = <<>>
    /\ owned2 = <<>>

\* Diff::new(&from, &to)
ComputeDiff ==
    /\ pc = "ready"
    /\ diff' = DiffNew(from, to)
    /\ pc' = "diffed"
    /\ UNCHANGED <<shape, schema, from, to, alter, schema_name, stmts, rows,
                 cow, owned, cow2, owned2>>

NextDiff == ComputeDiff

SpecDiff == InitDiff /\ [][NextDiff]_vars

(***************************************************************************)
(* Vocabulary of the claims about the SchemaDiffer                         *)
(***************************************************************************)
Diffed == pc = "diffed"
IsOwnedRecord(s) == s.ty.kind = "User" /\ s.ty.user = "Struct"
FieldNames(fields) == {fields[i].name : i \in 1..Len(fields)}
DistinctNames(fields) ==
    \A i, j \in 1..Len(fields) : fields[i].name = fields[j].name => i = j

\* C3: Diff::new(S, S) is Equal for every shape S.
C3_DiffReflexive ==
    (Diffed /\ from = to) => diff.kind = "Equal"

\* C3 witness: a record with two fields, one of them a record, diffed with
\* itself
C3_Witness ==
    /\ Diffed
    /\ from = to
    /\ IsOwnedRecord(from)
    /\ Len(from.ty.fields) = 2
    /\ \E i \in 1..2 : IsOwnedRecord(from.ty.fields[i].shape)
    /\ diff.kind = "Equal"

\* to lists the fields of from in another order
IsReordering(from_fields, to_fields_list) ==
    /\ Len(from_fields) = Len(to_fields_list)
    /\ from_fields # to_fields_list
    /\ \E p \in [1..Len(from_fields) -> 1..Len(from_fields)] :
          /\ \A i, j \in 1..Len(from_fields) : p[i] = p[j] => i = j
          /\ \A i \in 1..Len(from_fields) : to_fields_list[i] = from_fields[p[i]]

\* C4 (as claimed): two records with the same identifier and the same fields
\* in a different order diff as Equal.
C4_ReorderedFieldsEqual ==
    (/\ Diffed
     /\ IsOwnedRecord(from)
     /\ IsOwnedRecord(to)
     /\ from.type_identifier = to.type_identifier
     /\ from.def = to.def
     /\ IsReordering(from.ty.fields, to.ty.fields))
        => diff.kind = "Equal"

\* the field of to that the name index of to gives for a name (the only one
\* of that name when the names of to are distinct)
ToFieldNamed(fields, n) ==
    fields[CHOOSE i \in 1..Len(fields) :
              fields[i].name = n /\ \A j \in 1..Len(fields) :
                                       fields[j].name = n => j <= i]

\* to is from with the one field at position k renamed
IsRenameAt(from_fields, to_fields_list, k) ==
    /\ Len(from_fields) = Len(to_fields_list)
    /\ DistinctNames(from_fields)
    /\ DistinctNames(to_fields_list)
    /\ from_fields[k].name # to_fields_list[k].name
    /\ to_fields_list[k].name \notin FieldNames(from_fields)
    /\ \A i \in 1..Len(from_fields) :
          /\ from_fields[i].shape = to_fields_list[i].shape
          /\ i # k => from_fields[i].name = to_fields_list[i].name

\* C5: the diff of two non-equal records is User{Struct} where a from-field
\* name is in unchanged when the same-named field of to is diff-Equal, in
\* updates (mapped to the non-Equal diff of the two field shapes) when it
\* differs, in deletions when to has no such field; insertions are the names
\* of to that from has not. Renaming one field gives no update, the old name
\* deleted and the new name inserted.
C5_RecordDiff ==
    (Diffed /\ IsOwnedRecord(from) /\ IsOwnedRecord(to) /\ from # to) =>
        LET F == from.ty.fields
            T == to.ty.fields
            Common == {i \in 1..Len(F) : F[i].name \in FieldNames(T)}
            FieldDiff(i) == DiffNew(F[i].shape, ToFieldNamed(T, F[i].name).shape)
        IN  /\ diff.kind = "User"
            /\ diff.from = from
            /\ diff.to = to
            /\ diff.value.unchanged
                 = {F[i].name : i \in {c \in Common : FieldDiff(c).kind = "Equal"}}
            /\ DOMAIN diff.value.updates
                 = {F[i].name : i \in {c \in Common : FieldDiff(c).kind # "Equal"}}
            /\ \A n \in DOMAIN diff.value.updates :
                 /\ diff.value.updates[n].kind # "Equal"
                 /\ \E i \in Common : F[i].name = n /\ diff.value.updates[n] = FieldDiff(i)
            /\ diff.value.deletions = FieldNames(F) \ FieldNames(T)
            /\ diff.value.insertions = FieldNames(T) \ FieldNames(F)
            /\ \A k \in 1..Len(F) :
                 IsRenameAt(F, T, k) =>
                    /\ DOMAIN diff.value.updates = {}
                    /\ diff.value.deletions = {F[k].name}
                    /\ diff.value.insertions = {T[k].name}

\* C5 witness: a diff of two-field records with a field updated by a nested
\* record diff and a field deleted
C5_Witness ==
    /\ Diffed
    /\ diff.kind = "User"
    /\ \E n \in DOMAIN diff.value.updates : diff.value.updates[n].kind = "User"
    /\ diff.value.deletions # {}
    /\ diff.value.insertions = {}
    /\ Len(from.ty.fields) = 2

\* a second case of C5: one field of two renamed
C5_RenameReached ==
    /\ Diffed
    /\ diff.kind = "User"
    /\ Len(from.ty.fields) = 2
    /\ IsRenameAt(from.ty.fields, to.ty.fields, 2)
    /\ diff.value.unchanged = {from.ty.fields[1].name}

(***************************************************************************)
(* More claims about the ShapeCompiler and the SchemaDiffer                *)
(***************************************************************************)
\* C18: compiling a top-level shape that is neither a record nor an enum
\* (primitive, sequence, pointer, union, opaque) returns Err(NotAStruct) and
\* no schema.
C18_NotAStruct ==
    (Compiled /\ ~IsRecordShape(shape) /\ ~IsEnumShape(shape)) =>
        /\ ~schema.ok
        /\ schema.err = "NotAStruct"
        /\ Tables = <<>>

\* C18 witness: a union handed to the compiler and refused
C18_Witness ==
    /\ Compiled
    /\ shape.ty.kind = "User"
    /\ shape.ty.user = "Union"
    /\ schema.err = "NotAStruct"

\* a second case of C18: a sequence refused
C18_SequenceRefused ==
    /\ Compiled
    /\ shape.ty.kind = "Sequence"
    /\ schema.err = "NotAStruct"

IsOwnedEnum(s) == s.ty.kind = "User" /\ s.ty.user = "Enum"
IsOwnedSequence(s) == s.ty.kind = "Sequence"

\* C20: for two non-equal shapes Diff::new returns Different when both are
\* enums, Sequence when both types are sequences, User when both are records
\* and Different for every other combination of kinds.
C20_DiffKinds ==
    (Diffed /\ from # to) =>
        /\ diff.kind =
              (CASE IsOwnedEnum(from) /\ IsOwnedEnum(to) -> "Different"
                 [] IsOwnedSequence(from) /\ IsOwnedSequence(to) -> "Sequence"
                 [] IsOwnedRecord(from) /\ IsOwnedRecord(to) -> "User"
                 [] OTHER -> "Different")
        /\ diff.from = from
        /\ diff.to = to

\* C20 witness: two enums that differ in the payload of one variant, reported
\* as Different
C20_Witness ==
    /\ Diffed
    /\ IsOwnedEnum(from)
    /\ IsOwnedEnum(to)
    /\ from # to
    /\ Len(from.ty.variants) = 2
    /\ Len(to.ty.variants) = 2
    /\ diff.kind = "Different"

\* more cases of C20: two arrays, and a record against a union
C20_SequenceReached ==
    Diffed /\ IsOwnedSequence(from) /\ IsOwnedSequence(to) /\ diff.kind = "Sequence"
C20_MismatchReached ==
    /\ Diffed
    /\ IsOwnedRecord(from)
    /\ to.ty.kind = "User"
    /\ to.ty.user = "Union"
    /\ diff.kind = "Different"

(***************************************************************************)
(* MigrationRenderer (src/src/sea_query.rs)                                *)
(***************************************************************************)
\* the Err(String) of a rendering: which message it is, and the name that
\* the message interpolates (a field name or a type identifier)
RenderErr(kind, arg) == [kind |-> kind, arg |-> arg]

\* sea_query::ColumnDef after new(name), null() or not_null(), and one call
\* that sets the column type
ColumnDef(name, null, column_type) ==
    [name |-> name, null |-> null, type |-> column_type]

RECURSIVE unwrap_option_type(_)

\* every Option level is removed
unwrap_option_type(s) ==
    IF s.def.kind = "Option" THEN unwrap_option_type(s.def.t[1]) ELSE s

\* mutant: Boolean is taken for a numeric kind
is_compatible_type_change_bool_numeric(d) ==
    IF d.kind = "Different"
    THEN With(unwrap_option_type(d.from).ty, LAMBDA from_ty :
         With(unwrap_option_type(d.to).ty, LAMBDA to_ty :
            /\ from_ty.kind = "Primitive"
            /\ to_ty.kind = "Primitive"
            /\ from_ty.prim \in {"Integer", "Float", "Char", "Str", "Boolean"}
            /\ to_ty.prim \in {"Integer", "Float", "Char", "Str", "Boolean"}))
    ELSE TRUE

\* is_compatible_type_change: it returns Ok(_) on every path, so the model
\* keeps the boolean only
is_compatible_type_change(d) ==
    IF d.kind = "Different"
    THEN With(unwrap_option_type(d.from), LAMBDA from_inner :
         With(unwrap_option_type(d.to), LAMBDA to_inner :
            CASE from_inner.ty.kind = "Primitive" /\ to_inner.ty.kind = "Primitive" ->
                    /\ from_inner.ty.prim \in {"Integer", "Float", "Char", "Str"}
                    /\ to_inner.ty.prim \in {"Integer", "Float", "Char", "Str"}
              [] /\ from_inner.ty.kind = "User" /\ from_inner.ty.user = "Opaque"
                 /\ to_inner.ty.kind = "Primitive"
                 /\ to_inner.ty.prim \in {"Integer", "Float"} ->
                    from_inner.type_identifier = sString
              [] /\ from_inner.ty.kind = "Primitive"
                 /\ from_inner.ty.prim \in {"Integer", "Float"}
                 /\ to_inner.ty.kind = "User" /\ to_inner.ty.user = "Opaque" ->
                    to_inner.type_identifier = sString
              [] OTHER -> FALSE))
    ELSE TRUE

\* the Result of set_column_type_from_shape and the type it set on the column
ColumnTypeOk(column_type) ==
    [ok |-> TRUE, err |-> RenderErr("None", <<>>), type |-> column_type]
ColumnTypeErr(kind, arg) ==
    [ok |-> FALSE, err |-> RenderErr(kind, arg), type |-> "None"]

\* set_column_type_from_shape: one Option level is removed
set_column_type_from_shape(s) ==
    With(IF s.def.kind = "Option" THEN s.def.t[1] ELSE s, LAMBDA inner_shape :
        CASE inner_shape.ty.kind = "Primitive" ->
                CASE inner_shape.ty.prim = "Boolean" -> ColumnTypeOk("Boolean")
                  [] inner_shape.ty.prim = "Integer" ->
                        CASE inner_shape.type_identifier
                                \in {<<"u","8">>, <<"i","8">>} ->
                                ColumnTypeOk("TinyInteger")
                          [] inner_shape.type_identifier
                                \in {<<"u","1","6">>, <<"i","1","6">>} ->
                                ColumnTypeOk("SmallInteger")
                          [] inner_shape.type_identifier
                                \in {<<"u","3","2">>, <<"i","3","2">>} ->
                                ColumnTypeOk("Integer")
                          [] inner_shape.type_identifier
                                \in {<<"u","6","4">>, <<"i","6","4">>,
                                     <<"u","s","i","z","e">>,
                                     <<"i","s","i","z","e">>} ->
                                ColumnTypeOk("BigInteger")
                          [] OTHER -> ColumnTypeOk("Integer")
                  [] inner_shape.ty.prim = "Float" ->
                        CASE inner_shape.type_identifier = <<"f","3","2">> ->
                                ColumnTypeOk("Float")
                          [] inner_shape.type_identifier = <<"f","6","4">> ->
                                ColumnTypeOk("Double")
                          [] OTHER -> ColumnTypeOk("Double")
                  [] inner_shape.ty.prim = "Char" -> ColumnTypeOk("Char(1)")
                  [] inner_shape.ty.prim = "Str" -> ColumnTypeOk("String")
                  [] OTHER -> ColumnTypeErr("NeverNotSupported", <<>>)
          [] inner_shape.ty.kind = "User" /\ inner_shape.ty.user = "Enum" ->
                ColumnTypeOk("String")
          [] inner_shape.ty.kind = "User" /\ inner_shape.ty.user = "Opaque" ->
                IF inner_shape.type_identifier \in {sString, sStr}
                THEN ColumnTypeOk("String")
                ELSE ColumnTypeErr("UnsupportedOpaque", inner_shape.type_identifier)
          [] OTHER -> ColumnTypeErr("UnsupportedType", inner_shape.type_identifier))

\* to_struct.fields.iter().find(|f| &f.name == field_name): the first field
\* of that name, <<field>>, or <<>> when there is none
find_field(fields, field_name) ==
    IF \E i \in 1..Len(fields) : fields[i].name = field_name
    THEN <<fields[CHOOSE i \in 1..Len(fields) :
                /\ fields[i].name = field_name
                /\ \A j \in 1..(i - 1) : fields[j].name # field_name]>>
    ELSE <<>>

\* one TableAlterOption of the statement; a DropColumn holds a name only
AlterOption(op, column) == [op |-> op, column |-> column]

\* the state of the function while it loops: the options pushed so far, or
\* the error it returned with
LoopOk(options) == [ok |-> TRUE, err |-> RenderErr("None", <<>>), options |-> options]
LoopErr(err) == [ok |-> FALSE, err |-> err, options |-> <<>>]

\* mutant: an inserted column is NOT NULL whatever its Def
add_column_not_null(field, column_type) ==
    AlterOption("AddColumn", ColumnDef(field.name, FALSE, column_type))

\* the body of the loop over insertions once the type is set: the column is
\* nullable when the field's Def is Option
add_column(field, column_type) ==
    AlterOption("AddColumn",
        ColumnDef(field.name, field.shape.def.kind = "Option", column_type))

RECURSIVE add_columns(_, _, _, _)

\* "for field_name in &insertions", the set visited in the order `order`,
\* from position i on
add_columns(fields, order, i, options) ==
    IF i > Len(order)
    THEN LoopOk(options)
    ELSE With(find_field(fields, order[i]), LAMBDA found :
            IF found = <<>>
            THEN LoopErr(RenderErr("FieldNotFound", order[i]))
            ELSE With(set_column_type_from_shape(found[1].shape), LAMBDA ty :
                    IF ~ty.ok
                    THEN LoopErr(ty.err)
                    ELSE add_columns(fields, order, i + 1,
                            Append(options, add_column(found[1], ty.type)))))

RECURSIVE modify_columns(_, _, _, _, _)

\* "for (field_name, field_diff) in &updates", the map visited in the order
\* `order`, from position i on
modify_columns(fields, updates, order, i, options) ==
    IF i > Len(order)
    THEN LoopOk(options)
    ELSE With(find_field(fields, order[i]), LAMBDA found :
            IF found = <<>>
            THEN LoopErr(RenderErr("FieldNotFound", order[i]))
            ELSE IF ~is_compatible_type_change(updates[order[i]])
            THEN LoopErr(RenderErr("IncompatibleTypeChange", order[i]))
            ELSE With(set_column_type_from_shape(found[1].shape), LAMBDA ty :
                    IF ~ty.ok
                    THEN LoopErr(ty.err)
                    ELSE modify_columns(fields, updates, order, i + 1,
                            Append(options,
                                AlterOption("ModifyColumn",
                                    ColumnDef(found[1].name,
                                              found[1].shape.def.kind = "Option",
                                              ty.type))))))

\* "for field_name in &deletions", the set visited in the order `order`
drop_columns(order, options) ==
    options \o [i \in 1..Len(order) |->
                   AlterOption("DropColumn", ColumnDef(order[i], FALSE, "None"))]

\* Result<TableAlterStatement, String>: the statement is <<statement>> or <<>>
AlterOk(table, options) ==
    [ok |-> TRUE, err |-> RenderErr("None", <<>>),
     statement |-> <<[table |-> table, options |-> options]>>]
AlterErr(err) == [ok |-> FALSE, err |-> err, statement |-> <<>>]

\* mutant: a Sequence diff renders an empty statement on the to shape
TableAlterStatementTryFrom_sequence_ok(d, ins_order, upd_order, del_order) ==
    CASE d.kind = "Equal" -> AlterErr(RenderErr("NoChangesNeeded", <<>>))
      [] d.kind = "Sequence" -> AlterOk(d.to.type_identifier, <<>>)
      [] OTHER -> AlterErr(RenderErr("ShapesIncompatible", <<>>))

\* mutant: the statement is returned without the test for "no column
\* changes"
TableAlterStatementTryFrom_no_emptiness_test(d, ins_order, upd_order, del_order) ==
    CASE d.kind = "Equal" -> AlterErr(RenderErr("NoChangesNeeded", <<>>))
      [] d.kind = "Different" -> AlterErr(RenderErr("ShapesIncompatible", <<>>))
      [] d.kind = "Sequence" -> AlterErr(RenderErr("OnlyStructDiffs", <<>>))
      [] OTHER ->
            IF ~(d.to.ty.kind = "User" /\ d.to.ty.user = "Struct")
            THEN AlterErr(RenderErr("ExpectedStruct", <<>>))
            ELSE With(add_columns(d.to.ty.fields, ins_order, 1, <<>>),
                   LAMBDA added :
                    IF ~added.ok
                    THEN AlterErr(added.err)
                    ELSE With(modify_columns(d.to.ty.fields, d.value.updates,
                                             upd_order, 1, added.options),
                           LAMBDA modified :
                            IF ~modified.ok
                            THEN AlterErr(modified.err)
                            ELSE AlterOk(d.to.type_identifier,
                                         drop_columns(del_order, modified.options))))

\* TableAlterStatement::try_from(diff); the three orders are the orders in
\* which the hash set of insertions, the hash map of updates and the hash
\* set of deletions are iterated
TableAlterStatementTryFrom(d, ins_order, upd_order, del_order) ==
    CASE d.kind = "Equal" -> AlterErr(RenderErr("NoChangesNeeded", <<>>))
      [] d.kind = "Different" -> AlterErr(RenderErr("ShapesIncompatible", <<>>))
      [] d.kind = "Sequence" -> AlterErr(RenderErr("OnlyStructDiffs", <<>>))
      [] OTHER ->
            IF ~(d.to.ty.kind = "User" /\ d.to.ty.user = "Struct")
            THEN AlterErr(RenderErr("ExpectedStruct", <<>>))
            ELSE With(add_columns(d.to.ty.fields, ins_order, 1, <<>>),
                   LAMBDA added :
                    IF ~added.ok
                    THEN AlterErr(added.err)
                    ELSE With(modify_columns(d.to.ty.fields, d.value.updates,
                                             upd_order, 1, added.options),
                           LAMBDA modified :
                            IF ~modified.ok
                            THEN AlterErr(modified.err)
                            ELSE IF /\ d.value.insertions = {}
                                    /\ d.value.deletions = {}
                                    /\ DOMAIN d.value.updates = {}
                            THEN AlterErr(RenderErr("NoColumnChanges", <<>>))
                            ELSE AlterOk(d.to.type_identifier,
                                         drop_columns(del_order, modified.options))))

\* sea_query::TableCreateStatement after table(name) and one col() per field
CreateOk(table, columns) ==
    [ok |-> TRUE, err |-> RenderErr("None", <<>>),
     statement |-> <<[table |-> table, columns |-> columns]>>]
CreateErr(err) == [ok |-> FALSE, err |-> err, statement |-> <<>>]

RECURSIVE create_columns(_, _, _)

\* "for field in s.fields", from position i on: the column is null when the
\* field's Def is Option, and the first type that cannot be set ends the loop
create_columns(fields, i, columns) ==
    IF i > Len(fields)
    THEN LoopOk(columns)
    ELSE With(set_column_type_from_shape(fields[i].shape), LAMBDA ty :
            IF ~ty.ok
            THEN LoopErr(ty.err)
            ELSE create_columns(fields, i + 1,
                    Append(columns,
                           ColumnDef(fields[i].name,
                                     fields[i].shape.def.kind = "Option", ty.type))))

\* TableCreateStatement::try_from(shape): the table is named by the type
\* identifier as it is
TableCreateStatementTryFrom(s) ==
    IF ~(s.ty.kind = "User" /\ s.ty.user = "Struct")
    THEN CreateErr(RenderErr("OnlyStructShapes", <<>>))
    ELSE With(create_columns(s.ty.fields, 1, <<>>), LAMBDA created :
            IF ~created.ok
            THEN CreateErr(created.err)
            ELSE CreateOk(s.type_identifier, created.options))

(***************************************************************************)
(* OwnedShape::try_from(&facet::Shape) (src/src/owned_shape.rs)            *)
(***************************************************************************)
ConvOk(value) == [ok |-> TRUE, err |-> "None", value |-> value]
ConvErr(err) == [ok |-> FALSE, err |-> err, value |-> <<>>]

RECURSIVE OwnedShapeTryFrom(_), try_collect(_, _, _), owned_variants(_, _, _)

\* shapes.iter().map(|s| s.try_into()).collect::<Result<Vec<_>, _>>(): the
\* first error ends the collection
try_collect(shapes, i, acc) ==
    IF i > Len(shapes)
    THEN ConvOk(acc)
    ELSE With(OwnedShapeTryFrom(shapes[i]), LAMBDA r :
            IF ~r.ok
            THEN ConvErr(r.err)
            ELSE try_collect(shapes, i + 1, Append(acc, r.value)))

\* the fields of a struct, of a union or of a variant's data: names kept,
\* shapes converted, in the same order
owned_fields(fields) ==
    With(try_collect([i \in 1..Len(fields) |-> fields[i].shape], 1, <<>>),
       LAMBDA r :
        IF ~r.ok
        THEN ConvErr(r.err)
        ELSE ConvOk([i \in 1..Len(fields) |->
                        OwnedField(fields[i].name, r.value[i])]))

owned_variants(variants, i, acc) ==
    IF i > Len(variants)
    THEN ConvOk(acc)
    ELSE With(owned_fields(variants[i].data.fields), LAMBDA r :
            IF ~r.ok
            THEN ConvErr(r.err)
            ELSE owned_variants(variants, i + 1,
                    Append(acc, OwnedVariant(variants[i].name, r.value))))

\* OwnedType::try_from(&shape.ty); params are the converted element shapes
OwnedTypeTryFrom(s, params) ==
    CASE s.ty.kind = "Primitive" -> ConvOk(OwnedPrimitive(s.ty.prim, s.ty.signed))
      [] s.ty.kind = "Sequence" -> ConvOk(OwnedSequence(params[1]))
      [] s.ty.kind = "Pointer" -> ConvErr("PointerNotSupported")
      [] s.ty.user \in {"Struct", "Union"} ->
            With(owned_fields(s.ty.fields), LAMBDA r :
                IF ~r.ok
                THEN ConvErr(r.err)
                ELSE ConvOk(OwnedUser(s.ty.user, r.value, <<>>)))
      [] s.ty.user = "Enum" ->
            With(owned_variants(s.ty.variants, 1, <<>>), LAMBDA r :
                IF ~r.ok
                THEN ConvErr(r.err)
                ELSE ConvOk(OwnedUser("Enum", <<>>, r.value)))
      [] OTHER -> ConvOk(OwnedUser("Opaque", <<>>, <<>>))

\* OwnedShape::try_from(shape): the Def first, then the Type. The element
\* shapes of Option, List, Map and Array are the shape's type parameters, and
\* the length of an array is its size over the size of its element
OwnedShapeTryFrom(s) ==
    With(try_collect(IF s.def \in {"Option", "List", "Map", "Array"}
                     THEN s.type_params ELSE <<>>, 1, <<>>),
       LAMBDA params :
        IF ~params.ok
        THEN ConvErr(params.err)
        ELSE With(OwnedTypeTryFrom(s, params.value), LAMBDA ty :
                IF ~ty.ok
                THEN ConvErr(ty.err)
                ELSE ConvOk(OwnedShape(s.type_identifier,
                        OwnedDef(s.def, params.value,
                                 IF s.def = "Array"
                                 THEN s.layout.size \div s.type_params[1].layout.size
                                 ELSE 0),
                        ty.value))))

(***************************************************************************)
(* The diffs handed to the renderer                                        *)
(***************************************************************************)
\* one shape of every kind the compatibility rule tells apart, bare and
\* under Option
RenderShapes ==
    {o_u32, o_f64, o_bool, o_char, o_str, o_never, o_String, o_Uuid,
     o_Option(o_u32), o_Option(o_String), o_Option(o_bool),
     o_Option(o_Option(o_u32)), o_Option(o_Option(o_str)),
     o_Struct(<<"I","n">>, <<OwnedField(<<"x">>, o_u32)>>),
     o_Struct(<<"I","n">>, <<OwnedField(<<"x">>, o_String)>>),
     o_Enum(<<"E">>, <<OwnedVariant(<<"A">>, <<>>)>>),
     o_Enum(<<"E">>, <<OwnedVariant(<<"A">>, <<>>), OwnedVariant(<<"B">>, <<>>)>>),
     o_Array(o_u32, 2), o_Array(o_u32, 3), o_Vec(o_u32), o_Vec(o_String)}

\* struct P with the fields of `names` that `shapes` gives a shape, in the
\* order of `names`; shapes[n] = <<>> leaves the field n out
RenderRecord(names, shapes) ==
    o_Struct(<<"P">>,
        SelectSeq([i \in 1..Len(names) |->
                      IF shapes[names[i]] = <<>>
                      THEN OwnedField(<<>>, NoOwnedShape)
                      ELSE OwnedField(names[i], shapes[names[i]][1])],
                  LAMBDA f : f.name # <<>>))

\* the shapes of the fields of the records that change in several fields at
\* once: mappable and unmappable, nullable and not
MixedShapes == {o_u32, o_String, o_bool, o_Option(o_u32), o_Uuid}
MixedRecords(names) ==
    {RenderRecord(names, shapes) :
        shapes \in [Range(names) -> {<<>>} \cup {<<t>> : t \in MixedShapes}]}

\* the orders in which a hash set may be iterated
Orderings(set) ==
    {order \in [1..Cardinality(set) -> set] :
        \A i, j \in 1..Cardinality(set) : order[i] = order[j] => i = j}

(***************************************************************************)
(* State machine of one migration: a diff, then its rendering              *)
(***************************************************************************)
\* the records struct P { .. } of DiffRecords whose field names are distinct,
\* and the same records under the identifier Q
HasDistinctNames(fields) ==
    \A i, j \in 1..Len(fields) : i # j => fields[i].name # fields[j].name
DistinctRecords == {r \in DiffRecords : HasDistinctNames(r.ty.fields)}
Retyped(r) == o_Struct(<<"Q">>, r.ty.fields)

\* struct User { .. } and struct user { .. } with up to MaxFields fields
NamedRecords ==
    {StructShape(n, fs) : n \in {<<"U","s","e","r">>, <<"u","s","e","r">>},
                          fs \in SeqsUpTo(RecordFields, MaxFields)}

InitRender ==
    /\ pc = "ready"
    /\ schema = NoSchema
    /\ diff = NoDiff
    /\ alter = NoAlter
    /\ schema_name = <<>>
    /\ stmts = <<>>
    /\ rows = {}
    /\ cow = <<>>
    /\ owned = <<>>
    /\ cow2 = <<>>
    /\ owned2 = <<>>
    /\ \/ /\ shape = NoShape
          /\ \/ \E x, y \in RenderShapes :
                    /\ from = o_Struct(<<"P">>, <<OwnedField(<<"a">>, x)>>)
                    /\ to = o_Struct(<<"P">>, <<OwnedField(<<"a">>, y)>>)
             \/ \E x, y \in RenderShapes :
                    /\ from = o_Struct(<<"P">>, <<OwnedField(<<"a">>, x),
                                                 OwnedField(<<"b">>, o_bool)>>)
                    /\ to = o_Struct(<<"P">>, <<OwnedField(<<"a">>, y),
                                               OwnedField(<<"b">>, o_u32)>>)
             \/ /\ from \in MixedRecords(<<(<<"a">>), (<<"b">>)>>)
                /\ to \in MixedRecords(<<(<<"a">>), (<<"b">>), (<<"c">>)>>)
             \/ from \in VariedShapes /\ to \in VariedShapes
             \/ /\ from \in DistinctRecords
                /\ to \in DistinctRecords \cup {Retyped(r) : r \in DistinctRecords}
       \* a field of shape `shape` is added to the empty struct P
       \/ /\ shape \in FieldShapes
          /\ OwnedShapeTryFrom(shape).ok
          /\ from = o_Struct(<<"P">>, <<>>)
          /\ to = o_Struct(<<"P">>,
                       <<OwnedField(<<"x">>, OwnedShapeTryFrom(shape).value)>>)
       \* the record `shape` is diffed against the record of its name without
       \* fields
       \/ /\ shape \in NamedRecords
          /\ OwnedShapeTryFrom(shape).ok
          /\ from = o_Struct(shape.type_identifier, <<>>)
          /\ to = OwnedShapeTryFrom(shape).value

\* TableAlterStatement::try_from(diff)
Render ==
    /\ pc = "diffed"
    /\ \E ins_order \in Orderings(IF diff.kind = "User"
                                  THEN diff.value.insertions ELSE {}),
          upd_order \in Orderings(IF diff.kind = "User"
                                  THEN DOMAIN diff.value.updates ELSE {}),
          del_order \in Orderings(IF diff.kind = "User"
                                  THEN diff.value.deletions ELSE {}) :
            alter' = TableAlterStatementTryFrom(diff, ins_order, upd_order, del_order)
    /\ pc' = "rendered"
    /\ UNCHANGED <<shape, schema, from, to, diff, schema_name, stmts, rows,
                 cow, owned, cow2, owned2>>

\* TableCreateStatement::try_from(to)
CreateTableStatement ==
    /\ pc = "rendered"
    /\ stmts' = TableCreateStatementTryFrom(to).statement
    /\ pc' = "created"
    /\ UNCHANGED <<shape, schema, from, to, diff, alter, schema_name, rows,
                 cow, owned, cow2, owned2>>

\* PartialSchema::try_from(shape), of the reflection shape that `to` was
\* converted from
CompileTo ==
    /\ pc = "created"
    /\ shape # NoShape
    /\ OwnedShapeTryFrom(shape) = ConvOk(to)
    /\ schema' = PartialSchemaTryFrom(shape)
    /\ pc' = "compiled_to"
    /\ UNCHANGED <<shape, from, to, diff, alter, schema_name, stmts, rows,
                 cow, owned, cow2, owned2>>

NextRender == ComputeDiff \/ Render \/ CreateTableStatement \/ CompileTo

SpecRender == InitRender /\ [][NextRender]_vars

(***************************************************************************)
(* Claims about the MigrationRenderer                                      *)
(***************************************************************************)
Rendered == pc = "rendered"

\* C15: rendering Diff::Equal returns the error "no changes needed",
\* rendering Diff::Different or Diff::Sequence returns an error, and none of
\* the three produces a statement
C15_NoStatementForNonStructDiffs ==
    (Rendered /\ diff.kind \in {"Equal", "Different", "Sequence"}) =>
        /\ ~alter.ok
        /\ alter.statement = <<>>
        /\ alter.err.kind # "None"
        /\ diff.kind = "Equal" => alter.err.kind = "NoChangesNeeded"

\* two sequences that differ have been rendered
C15_Witness ==
    /\ Rendered
    /\ diff.kind = "Sequence"
    /\ ~alter.ok
    /\ alter.err.kind = "OnlyStructDiffs"

C15_EqualReached ==
    Rendered /\ diff.kind = "Equal" /\ alter.err.kind = "NoChangesNeeded"

C15_DifferentReached ==
    Rendered /\ diff.kind = "Different" /\ alter.err.kind = "ShapesIncompatible"

\* the options of the rendered statement with the operation op on column n
OptionsOn(op, n) ==
    {i \in 1..Len(alter.statement[1].options) :
        /\ alter.statement[1].options[i].op = op
        /\ alter.statement[1].options[i].column.name = n}

\* the renderer accepts every part of the diff: every update is a compatible
\* type change, and the type of every inserted and updated field of to is one
\* that set_column_type_from_shape maps
Renderable ==
    /\ \A n \in DOMAIN diff.value.updates :
            is_compatible_type_change(diff.value.updates[n])
    /\ \A n \in diff.value.insertions \cup DOMAIN diff.value.updates :
            set_column_type_from_shape(find_field(to.ty.fields, n)[1].shape).ok

HasChanges ==
    diff.value.insertions \cup diff.value.deletions \cup DOMAIN diff.value.updates # {}

\* C12 as stated: every User/Struct diff whose updates are all compatible and
\* whose field types are mappable renders successfully, a diff without any
\* insertion, deletion or update included
C12_AlterStatementAsClaimed ==
    (Rendered /\ diff.kind = "User" /\ Renderable) =>
        /\ alter.ok
        /\ Len(alter.statement) = 1
        /\ alter.statement[1].table = to.type_identifier

\* C12: a User/Struct diff with at least one change, whose updates are all
\* compatible and whose inserted and updated field types are mappable,
\* renders one ALTER statement on the table named by the to type, with
\* exactly one ADD COLUMN per insertion (NULL exactly when the Def of the
\* inserted field is Option), one DROP COLUMN per deletion, one MODIFY COLUMN
\* per update, and nothing else
C12_AlterStatement ==
    (Rendered /\ diff.kind = "User" /\ HasChanges /\ Renderable) =>
        /\ alter.ok
        /\ Len(alter.statement) = 1
        /\ alter.statement[1].table = to.type_identifier
        /\ Len(alter.statement[1].options)
              = Cardinality(diff.value.insertions)
                  + Cardinality(diff.value.deletions)
                  + Cardinality(DOMAIN diff.value.updates)
        /\ \A n \in diff.value.insertions :
              /\ Cardinality(OptionsOn("AddColumn", n)) = 1
              /\ \A i \in OptionsOn("AddColumn", n) :
                    alter.statement[1].options[i].column.null
                        = (find_field(to.ty.fields, n)[1].shape.def.kind = "Option")
        /\ \A n \in diff.value.deletions : Cardinality(OptionsOn("DropColumn", n)) = 1
        /\ \A n \in DOMAIN diff.value.updates :
              Cardinality(OptionsOn("ModifyColumn", n)) = 1
        /\ \A n \in diff.value.unchanged, i \in 1..Len(alter.statement[1].options) :
              alter.statement[1].options[i].column.name # n

\* a nullable field inserted, a field deleted, a field updated and a field
\* unchanged, rendered as one statement
C12_Witness ==
    /\ Rendered
    /\ diff.kind = "User"
    /\ alter.ok
    /\ diff.value.deletions = {<<"b">>}
    /\ DOMAIN diff.value.updates = {<<"a">>}
    /\ \E n \in diff.value.insertions :
          find_field(to.ty.fields, n)[1].shape.def.kind = "Option"
    /\ \E i \in 1..Len(alter.statement[1].options) :
          /\ alter.statement[1].options[i].op = "AddColumn"
          /\ alter.statement[1].options[i].column.null

\* a non-nullable field inserted next to an unchanged one
C12_NotNullReached ==
    /\ Rendered
    /\ alter.ok
    /\ diff.value.unchanged # {}
    /\ \E i \in 1..Len(alter.statement[1].options) :
          /\ alter.statement[1].options[i].op = "AddColumn"
          /\ ~alter.statement[1].options[i].column.null

\* two records that differ in their identifier only: the diff has no
\* insertion, deletion or update, and the rendering fails with "No column
\* changes found"
C12_NoChangesReached ==
    Rendered /\ diff.kind = "User" /\ ~HasChanges /\ alter.err.kind = "NoColumnChanges"

\* the kinds that the compatibility rule tells apart
IsNumeric(s) == s.ty.kind = "Primitive" /\ s.ty.prim \in {"Integer", "Float"}
IsTextual(s) == s.ty.kind = "Primitive" /\ s.ty.prim \in {"Char", "Str"}
IsOpaque(s) == s.ty.kind = "User" /\ s.ty.user = "Opaque"

\* the rule on two shapes without their Option wrappers
CompatibleKinds(a, b) ==
    \/ (IsNumeric(a) \/ IsTextual(a)) /\ (IsNumeric(b) \/ IsTextual(b))
    \/ IsOpaque(a) /\ IsNumeric(b) /\ a.type_identifier = sString
    \/ IsNumeric(a) /\ IsOpaque(b) /\ b.type_identifier = sString

\* C13: for every updated field the renderer decides "compatible" exactly
\* when, Option unwrapped on both sides, the two shapes are Numeric or
\* Textual primitives, or one is Numeric and the other the Opaque shape
\* String; every other pair of kinds, two records or two sequences included,
\* is decided "incompatible"
C13_CompatibilityRule ==
    (Rendered /\ diff.kind = "User") =>
        \A n \in DOMAIN diff.value.updates :
            is_compatible_type_change(diff.value.updates[n])
                = CompatibleKinds(unwrap_option_type(diff.value.updates[n].from),
                                  unwrap_option_type(diff.value.updates[n].to))

\* the part of C13 that the code keeps: the rule decides every update whose
\* field diff is Different
C13_RuleOnDifferentUpdates ==
    (Rendered /\ diff.kind = "User") =>
        \A n \in DOMAIN diff.value.updates :
            diff.value.updates[n].kind = "Different" =>
                is_compatible_type_change(diff.value.updates[n])
                    = CompatibleKinds(unwrap_option_type(diff.value.updates[n].from),
                                      unwrap_option_type(diff.value.updates[n].to))

\* a record field updated to another record: decided compatible, and the
\* rendering fails on the type of the column instead
C13_RecordUpdateReached ==
    /\ Rendered
    /\ diff.kind = "User"
    /\ \E n \in DOMAIN diff.value.updates :
          /\ diff.value.updates[n].kind = "User"
          /\ is_compatible_type_change(diff.value.updates[n])
    /\ alter.err.kind = "UnsupportedType"

\* the updates that the renderer decides incompatible
IncompatibleUpdates ==
    {n \in DOMAIN diff.value.updates :
        ~is_compatible_type_change(diff.value.updates[n])}

\* the updates that the rule of C13 calls incompatible
RuleIncompatibleUpdates ==
    {n \in DOMAIN diff.value.updates :
        ~CompatibleKinds(unwrap_option_type(diff.value.updates[n].from),
                         unwrap_option_type(diff.value.updates[n].to))}

\* the inserted fields, and the updated fields decided compatible, whose type
\* in to has no column type
Unmappable(names) ==
    {n \in names :
        ~set_column_type_from_shape(find_field(to.ty.fields, n)[1].shape).ok}

C14_InsertionErrorReached ==
    /\ Rendered
    /\ diff.kind = "User"
    /\ IncompatibleUpdates # {}
    /\ Unmappable(DOMAIN diff.value.updates \ IncompatibleUpdates) # {}
    /\ alter.err.kind = "UnsupportedType"
    /\ alter.err.arg = <<"U","u","i","d">>

\* two updates, one incompatible and one compatible but to a type without a
\* column type: the error depends on which is visited first
C14_EitherErrorReached ==
    /\ Rendered
    /\ diff.kind = "User"
    /\ diff.value.insertions = {}
    /\ IncompatibleUpdates = {<<"b">>}
    /\ Unmappable(DOMAIN diff.value.updates \ IncompatibleUpdates) # {}
    /\ alter.err.kind = "UnsupportedType"

\* the PostgreSQL type that sea_query writes for a column type, under the
\* names of the compiler's DataType; varchar (string()) and text are taken
\* for one type
PostgresType(column_type) ==
    CASE column_type \in {"TinyInteger", "SmallInteger"} -> "SmallInt"
      [] column_type = "BigInteger" -> "BigInt"
      [] column_type = "Float" -> "Real"
      [] column_type = "Double" -> "DoublePrecision"
      [] column_type = "String" -> "Text"
      [] OTHER -> column_type

\* a field of shape `shape` was inserted and the diff rendered
FieldInserted == Rendered /\ shape # NoShape /\ from = o_Struct(<<"P">>, <<>>)

\* C16: the column rendered for an inserted field has the data type and the
\* nullability of the column that field_to_column compiles for the field,
\* and where one of the two fails so does the other
C16_SameColumnAsCompiler ==
    FieldInserted =>
        With(field_to_column(Field(<<"x">>, shape, <<>>)), LAMBDA compiled :
            IF compiled.ok
            THEN /\ alter.ok
                 /\ PostgresType(alter.statement[1].options[1].column.type)
                        = compiled.column.data_type
                 /\ alter.statement[1].options[1].column.null
                        = compiled.column.nullable
            ELSE ~alter.ok)

\* where the two agree: a u32 field is an Integer NOT NULL column for both
C16_AgreementReached ==
    /\ FieldInserted
    /\ shape = u32Shape
    /\ alter.ok
    /\ alter.statement[1].options[1].column = ColumnDef(<<"x">>, FALSE, "Integer")
    /\ field_to_column(Field(<<"x">>, shape, <<>>)).column.data_type = "Integer"

\* where they differ: an enum field is a string column for the renderer and
\* an Integer column for the compiler
C16_EnumColumnsDiffer ==
    /\ FieldInserted
    /\ shape = StatusShape
    /\ alter.ok
    /\ alter.statement[1].options[1].column.type = "String"
    /\ field_to_column(Field(<<"x">>, shape, <<>>)).column.data_type = "Integer"

\* a struct field is refused by the renderer and a Jsonb column for the
\* compiler
C16_StructColumnsDiffer ==
    /\ FieldInserted
    /\ shape = AddressShape
    /\ ~alter.ok
    /\ alter.err.kind = "UnsupportedType"
    /\ field_to_column(Field(<<"x">>, shape, <<>>)).column.data_type = "Jsonb"

(***************************************************************************)
(* DDLRenderer: PartialSchema::to_ddl (src/src/lib.rs)                     *)
(***************************************************************************)
\* the objects of a schema besides its tables; an Option<String> is <<>> or
\* <<string>>, and the parts of an object that no statement order depends on
\* (the values of a sequence, the definition of a view) are left out
EnumType(schema_opt, name, variants, comment) ==
    [schema |-> schema_opt, name |-> name, variants |-> variants, comment |-> comment]
SchemaObject(schema_opt, name, comment) ==
    [schema |-> schema_opt, name |-> name, comment |-> comment]
View(name, materialized, comment) ==
    [name |-> name, materialized |-> materialized, comment |-> comment]
UniqueConstraint(name, columns) == [name |-> name, columns |-> columns]
Index(name, columns, unique, is_primary) ==
    [name |-> name, columns |-> columns, unique |-> unique, is_primary |-> is_primary]

\* one statement of the output: what it creates or alters, the qualified
\* name of the object it is on, and the names it mentions
Stmt(kind, on, name, detail) ==
    [kind |-> kind, on |-> on, name |-> name, detail |-> detail]

RECURSIVE Concat(_)
Concat(seqs) == IF seqs = <<>> THEN <<>> ELSE Head(seqs) \o Concat(Tail(seqs))

\* for item in items { stmts.push(..) ... }: the statements pushed, in order
ForEach(items, Body(_)) == Concat([i \in 1..Len(items) |-> Body(items[i])])

RECURSIVE join(_, _)
\* parts.join(sep)
join(parts, sep) ==
    CASE parts = <<>> -> <<>>
      [] Len(parts) = 1 -> parts[1]
      [] OTHER -> parts[1] \o sep \o join(Tail(parts), sep)

\* format!("{}.{}", s, name) when the schema is Some(s), the name otherwise;
\* QualifiedName::to_string is the same function
qualified(schema_opt, name) ==
    IF schema_opt = <<>> THEN name ELSE schema_opt[1] \o <<".">> \o name

\* the COMMENT ON statement that follows an object with a comment
comment_on(kind, q, comment) ==
    IF comment = <<>> THEN <<>> ELSE <<Stmt(kind, q, <<>>, comment[1])>>

\* Pass 1: enums, sequences, composite types, domains
types_pass(s) ==
    ForEach(s.enums, LAMBDA e :
        <<Stmt("CreateEnumType", qualified(e.schema, e.name), <<>>, e.variants)>>
            \o comment_on("CommentOnType", qualified(e.schema, e.name), e.comment))
    \o ForEach(s.sequences, LAMBDA seq :
        <<Stmt("CreateSequence", qualified(seq.schema, seq.name), <<>>, <<>>)>>
            \o comment_on("CommentOnSequence", qualified(seq.schema, seq.name),
                          seq.comment))
    \o ForEach(s.composite_types, LAMBDA ct :
        <<Stmt("CreateCompositeType", qualified(ct.schema, ct.name), <<>>, <<>>)>>
            \o comment_on("CommentOnType", qualified(ct.schema, ct.name), ct.comment))
    \o ForEach(s.domains, LAMBDA dom :
        <<Stmt("CreateDomain", qualified(dom.schema, dom.name), <<>>, <<>>)>>
            \o comment_on("CommentOnDomain", qualified(dom.schema, dom.name),
                          dom.comment))

\* mutant: the foreign keys of a table are added right after its CREATE TABLE
tables_pass_with_foreign_keys(s, name) ==
    ForEach(s.tables, LAMBDA t :
        <<Stmt("CreateTable", qualified(<<name>>, t.name), <<>>,
               [columns |-> [i \in 1..Len(t.columns) |-> t.columns[i].name],
                primary_key |-> t.primary_key])>>
        \o ForEach(t.foreign_keys, LAMBDA fk :
            <<Stmt("AddForeignKey", qualified(<<name>>, t.name),
                   IF fk.name # <<>> THEN fk.name[1]
                   ELSE t.name \o <<"_">> \o join(fk.columns, <<"_">>)
                            \o <<"_","f","k","e","y">>,
                   [columns |-> fk.columns,
                    references |-> qualified(fk.referenced_table.schema,
                                             fk.referenced_table.name),
                    referenced_columns |-> fk.referenced_columns,
                    on_delete |-> fk.on_delete, on_update |-> fk.on_update])>>))

\* Pass 2: per table, CREATE TABLE with its columns and primary key, then its
\* unique constraints, then its check constraints
tables_pass(s, name) ==
    ForEach(s.tables, LAMBDA t :
        <<Stmt("CreateTable", qualified(<<name>>, t.name), <<>>,
               [columns |-> [i \in 1..Len(t.columns) |-> t.columns[i].name],
                primary_key |-> t.primary_key])>>
        \o ForEach(t.uniques, LAMBDA u :
            <<Stmt("AddUnique", qualified(<<name>>, t.name),
                   IF u.name # <<>> THEN u.name[1]
                   ELSE t.name \o <<"_">> \o join(u.columns, <<"_">>)
                            \o <<"_","k","e","y">>,
                   u.columns)>>)
        \o ForEach(t.checks, LAMBDA ck :
            <<Stmt("AddCheck", qualified(<<name>>, t.name), ck.name, ck.expression)>>))

\* Pass 3: views, then materialized views
views_pass(s, name) ==
    ForEach(s.views, LAMBDA v :
        <<Stmt(IF v.materialized THEN "CreateMaterializedView" ELSE "CreateView",
               qualified(<<name>>, v.name), <<>>, <<>>)>>
            \o comment_on("CommentOnView", qualified(<<name>>, v.name), v.comment))
    \o ForEach(s.materialized_views, LAMBDA mv :
        <<Stmt("CreateMaterializedView", qualified(<<name>>, mv.name), <<>>, <<>>)>>
            \o comment_on("CommentOnMaterializedView", qualified(<<name>>, mv.name),
                          mv.comment))

\* mutant: an index marked is_primary gets a statement like any other
indexes_pass_with_primary(s, name) ==
    ForEach(s.tables, LAMBDA t :
        ForEach(t.indexes, LAMBDA idx :
            <<Stmt("CreateIndex", qualified(<<name>>, t.name),
                   IF idx.name = <<>>
                   THEN t.name \o <<"_","i","d","x","_">>
                            \o join(idx.columns, <<"_">>)
                   ELSE idx.name,
                   [columns |-> idx.columns, unique |-> idx.unique])>>))

\* Pass 4: the indexes of every table, those marked is_primary skipped
indexes_pass(s, name) ==
    ForEach(s.tables, LAMBDA t :
        ForEach(t.indexes, LAMBDA idx :
            IF idx.is_primary
            THEN <<>>
            ELSE <<Stmt("CreateIndex", qualified(<<name>>, t.name),
                        IF idx.name = <<>>
                        THEN t.name \o <<"_","i","d","x","_">>
                                 \o join(idx.columns, <<"_">>)
                        ELSE idx.name,
                        [columns |-> idx.columns, unique |-> idx.unique])>>))

\* Pass 5: the foreign keys of every table
foreign_keys_pass(s, name) ==
    ForEach(s.tables, LAMBDA t :
        ForEach(t.foreign_keys, LAMBDA fk :
            <<Stmt("AddForeignKey", qualified(<<name>>, t.name),
                   IF fk.name # <<>> THEN fk.name[1]
                   ELSE t.name \o <<"_">> \o join(fk.columns, <<"_">>)
                            \o <<"_","f","k","e","y">>,
                   [columns |-> fk.columns,
                    references |-> qualified(fk.referenced_table.schema,
                                             fk.referenced_table.name),
                    referenced_columns |-> fk.referenced_columns,
                    on_delete |-> fk.on_delete, on_update |-> fk.on_update])>>))

(***************************************************************************)
(* The schemas handed to the DDLRenderer                                   *)
(***************************************************************************)
sPublic == <<"p","u","b","l","i","c">>
sTableA == <<"t","a","b","l","e","a">>
sTableB == <<"t","a","b","l","e","b">>
sTableC == <<"t","a","b","l","e","c">>
sBId == <<"b","_","i","d">>
sAId == <<"a","_","i","d">>
sEmail == <<"e","m","a","i","l">>

\* TableA { id, b_id } with a foreign key to tableb added by hand, TableB
\* { id } with the index that backs its primary key, and a table with two
\* foreign keys, an unnamed unique constraint, a check and an unnamed index
DdlTableA ==
    Table(sTableA,
          <<Column(sId, "BigInt", FALSE, FALSE, "None"),
            Column(sBId, "BigInt", TRUE, FALSE, "None")>>,
          <<PrimaryKey(<<sId>>)>>,
          <<[ForeignKey(sBId, sTableB) EXCEPT !.on_update = "None"]>>,
          <<>>)
DdlTableB ==
    [Table(sTableB, <<Column(sId, "BigInt", FALSE, FALSE, "None")>>,
           <<PrimaryKey(<<sId>>)>>, <<>>, <<>>)
        EXCEPT !.indexes = <<Index(<<"t","a","b","l","e","b","_","p","k","e","y">>,
                                   <<sId>>, TRUE, TRUE)>>]
DdlTableC ==
    [Table(sTableC,
           <<Column(sAId, "BigInt", FALSE, FALSE, "None"),
             Column(sBId, "BigInt", FALSE, FALSE, "None"),
             Column(sEmail, "Text", FALSE, FALSE, "None")>>,
           <<>>,
           <<ForeignKey(sAId, sTableA),
             [ForeignKey(sBId, sTableB) EXCEPT !.name = <<(<<"c","_","b">>)>>]>>,
           <<[name |-> <<"c","k">>, expression |-> "a_id <> b_id",
              no_inherit |-> FALSE]>>)
        EXCEPT !.uniques = <<UniqueConstraint(<<>>, <<sEmail>>)>>,
               !.indexes = <<Index(<<>>, <<sEmail>>, FALSE, FALSE)>>]

\* every order of every choice of the tables of a set
TableOrders(tables) == UNION {Orderings(chosen) : chosen \in SUBSET tables}

\* the schemas written by hand: the tables in every order, with and without
\* an object of every other kind
HandSchemas ==
    {[PartialSchema(tables) EXCEPT
        !.enums = enums, !.sequences = sequences,
        !.composite_types = composite_types, !.domains = domains,
        !.views = views, !.materialized_views = materialized_views] :
      tables \in TableOrders({DdlTableA, DdlTableB, DdlTableC}),
      enums \in {<<>>, <<EnumType(<<>>, <<"m","o","o","d">>,
                                   <<(<<"o","k">>), (<<"s","a","d">>)>>,
                                   <<"mood of a user">>)>>},
      sequences \in {<<>>, <<SchemaObject(<<sPublic>>, <<"s","e","q">>, <<>>)>>},
      composite_types \in {<<>>, <<SchemaObject(<<>>, <<"p","a","i","r">>, <<>>)>>},
      domains \in {<<>>, <<SchemaObject(<<>>, <<"z","i","p">>, <<"a zip code">>)>>},
      views \in {<<>>, <<View(<<"v">>, FALSE, <<>>)>>,
                 <<View(<<"v">>, FALSE, <<"a view">>), View(<<"w">>, TRUE, <<>>)>>},
      materialized_views \in {<<>>, <<SchemaObject(<<>>, <<"m","v">>, <<>>)>>}}

\* the schemas compiled from the enums of up to two variants, and from the
\* enums of the tests, with their tables in every order
CompiledSchemas ==
    UNION {{PartialSchema(tables) :
                tables \in Orderings(Range(PartialSchemaTryFrom(e).value.tables))} :
            e \in {e \in {EnumShape(<<"T","h","i","n","g","y">>, vs) :
                            vs \in SeqsUpTo(Variants, 2)}
                        \cup {StatusShape, PaymentOptionShape} :
                     PartialSchemaTryFrom(e).ok}}

(***************************************************************************)
(* State machine of one rendering to DDL: the passes of to_ddl             *)
(***************************************************************************)
InitDdl ==
    /\ pc = "start"
    /\ shape = NoShape
    /\ schema \in {[ok |-> TRUE, err |-> "None", value |-> s] :
                      s \in HandSchemas \cup CompiledSchemas}
    /\ from = NoOwnedShape
    /\ to = NoOwnedShape
    /\ diff = NoDiff
    /\ alter = NoAlter
    /\ schema_name \in {sPublic, <<"a","p","p">>}
    /\ stmts = <<>>
    /\ rows = {}
    /\ cow = <<>>
    /\ owned = <<>>
    /\ cow2 = <<>>
    /\ owned2 = <<>>

\* stmts.push("CREATE SCHEMA IF NOT EXISTS ..")
CreateSchemaStmt ==
    /\ pc = "start"
    /\ stmts' = <<Stmt("CreateSchema", schema_name, <<>>, <<>>)>>
    /\ pc' = "schema_created"
    /\ UNCHANGED <<shape, schema, from, to, diff, alter, schema_name, rows,
                 cow, owned, cow2, owned2>>

TypesPass ==
    /\ pc = "schema_created"
    /\ stmts' = stmts \o types_pass(schema.value)
    /\ pc' = "types_created"
    /\ UNCHANGED <<shape, schema, from, to, diff, alter, schema_name, rows,
                 cow, owned, cow2, owned2>>

TablesPass ==
    /\ pc = "types_created"
    /\ stmts' = stmts \o tables_pass(schema.value, schema_name)
    /\ pc' = "tables_created"
    /\ UNCHANGED <<shape, schema, from, to, diff, alter, schema_name, rows,
                 cow, owned, cow2, owned2>>

ViewsPass ==
    /\ pc = "tables_created"
    /\ stmts' = stmts \o views_pass(schema.value, schema_name)
    /\ pc' = "views_created"
    /\ UNCHANGED <<shape, schema, from, to, diff, alter, schema_name, rows,
                 cow, owned, cow2, owned2>>

IndexesPass ==
    /\ pc = "views_created"
    /\ stmts' = stmts \o indexes_pass(schema.value, schema_name)
    /\ pc' = "indexes_created"
    /\ UNCHANGED <<shape, schema, from, to, diff, alter, schema_name, rows,
                 cow, owned, cow2, owned2>>

\* the last pass; the function returns stmts.join("\n")
ForeignKeysPass ==
    /\ pc = "indexes_created"
    /\ stmts' = stmts \o foreign_keys_pass(schema.value, schema_name)
    /\ pc' = "done"
    /\ UNCHANGED <<shape, schema, from, to, diff, alter, schema_name, rows,
                 cow, owned, cow2, owned2>>

NextDdl ==
    \/ CreateSchemaStmt
    \/ TypesPass
    \/ TablesPass
    \/ ViewsPass
    \/ IndexesPass
    \/ ForeignKeysPass

SpecDdl == InitDdl /\ [][NextDdl]_vars

(***************************************************************************)
(* Claims about the DDLRenderer                                            *)
(***************************************************************************)
\* the positions of the statements of one kind
StmtsOfKind(kind) == {i \in 1..Len(stmts) : stmts[i].kind = kind}

\* C11: at every point of the rendering, every CREATE TABLE statement comes
\* before every ALTER TABLE .. ADD CONSTRAINT .. FOREIGN KEY statement, and
\* when a foreign key is emitted every table of the schema, whatever its
\* place in the input, has its CREATE TABLE before it
C11_TablesBeforeForeignKeys ==
    \A j \in StmtsOfKind("AddForeignKey") :
        /\ \A i \in StmtsOfKind("CreateTable") : i < j
        /\ \A k \in 1..Len(schema.value.tables) :
              \E i \in 1..(j - 1) :
                  /\ stmts[i].kind = "CreateTable"
                  /\ stmts[i].on = qualified(<<schema_name>>, schema.value.tables[k].name)

\* a table with a foreign key was given before the table that the key
\* references, and the rendering is complete
C11_Witness ==
    /\ pc = "done"
    /\ StmtsOfKind("AddForeignKey") # {}
    /\ \E k, l \in 1..Len(schema.value.tables) :
          /\ k < l
          /\ \E f \in 1..Len(schema.value.tables[k].foreign_keys) :
                schema.value.tables[k].foreign_keys[f].referenced_table.name
                    = schema.value.tables[l].name

\* the statement of the test: ALTER TABLE public.tablea ADD CONSTRAINT
\* tablea_b_id_fkey FOREIGN KEY (b_id) REFERENCES tableb (id), after both
\* CREATE TABLE statements although tablea was given first
C11_TestStatementReached ==
    /\ pc = "done"
    /\ Len(schema.value.tables) = 2
    /\ schema.value.tables[1].name = sTableA
    /\ \E j \in StmtsOfKind("AddForeignKey") :
          /\ stmts[j].on = sPublic \o <<".">> \o sTableA
          /\ stmts[j].name = sTableA \o <<"_","b","_","i","d","_","f","k","e","y">>
          /\ stmts[j].detail.references = sTableB
          /\ stmts[j].detail.on_delete = "Cascade"
          /\ \E i \in 1..(j - 1) :
                /\ stmts[i].kind = "CreateTable"
                /\ stmts[i].on = sPublic \o <<".">> \o sTableB

(***************************************************************************)
(* The tables of a compiled enum as a database: rows, and the foreign keys *)
(* and the CHECK of the schema enforced under SQL semantics                *)
(***************************************************************************)
\* the values of the id column
RowIds == {1, 2}

\* a row of the main table has a discriminant and, for every foreign key
\* column, NULL (<<>>) or <<the id of a variant row>>; a row of a variant
\* table has its id (discriminant -1, no foreign key column)
Row(table, id, discriminant, values) ==
    [table |-> table, id |-> id, discriminant |-> discriminant, values |-> values]

\* the rows that hold a foreign key to r, under every foreign key of the
\* schema with the given ON DELETE action: the key is declared on holder,
\* its column is in the rows of holder, and it references the id of the
\* table named in referenced_table
Referencing(tables, held, r, on_delete) ==
    {q \in held :
        \E t \in 1..Len(tables) :
            /\ q.table = tables[t].name
            /\ \E f \in 1..Len(tables[t].foreign_keys) :
                  /\ tables[t].foreign_keys[f].on_delete \in on_delete
                  /\ tables[t].foreign_keys[f].referenced_table.name = r.table
                  /\ tables[t].foreign_keys[f].columns[1] \in DOMAIN q.values
                  /\ q.values[tables[t].foreign_keys[f].columns[1]] = <<r.id>>}

RECURSIVE Cascade(_, _, _)
\* the rows deleted with the rows of `deleted`: those that reference one of
\* them through a foreign key ON DELETE CASCADE, and so on
Cascade(tables, held, deleted) ==
    With(deleted \cup UNION {Referencing(tables, held, r, {"Cascade"}) : r \in deleted},
       LAMBDA more :
        IF more = deleted THEN deleted ELSE Cascade(tables, held, more))

\* enum PaymentOption { Card(u64), Cash } and enum Thingy { A { a: usize },
\* B(u32, String) }
DbEnums ==
    {PaymentOptionShape,
     EnumShape(<<"T","h","i","n","g","y">>,
        <<Variant(<<"A">>, "Struct", <<Field(<<"a">>, usizeShape, <<>>)>>),
          Variant(<<"B">>, "Tuple", <<Field(<<"0">>, u32Shape, <<>>),
                                      Field(<<"1">>, StringShape, <<>>)>>)>>)}

InitDatabase ==
    /\ pc = "database"
    /\ shape \in DbEnums
    /\ schema = PartialSchemaTryFrom(shape)
    /\ schema.ok
    /\ from = NoOwnedShape
    /\ to = NoOwnedShape
    /\ diff = NoDiff
    /\ alter = NoAlter
    /\ schema_name = sPublic
    /\ stmts = <<>>
    /\ rows = {}
    /\ cow = <<>>
    /\ owned = <<>>
    /\ cow2 = <<>>
    /\ owned2 = <<>>

\* INSERT INTO <variant table>
InsertVariantRow ==
    /\ pc = "database"
    /\ \E t \in 1..Len(Tables), id \in RowIds :
          /\ Tables[t].name # MainTable.name
          /\ \A r \in rows : ~(r.table = Tables[t].name /\ r.id = id)
          /\ rows' = rows \cup {Row(Tables[t].name, id, 0 - 1, <<>>)}
    /\ UNCHANGED <<pc, shape, schema, from, to, diff, alter, schema_name, stmts,
                 cow, owned, cow2, owned2>>

\* INSERT INTO <main table>: the CHECK variant_integrity holds of the row,
\* and every foreign key column that is not NULL holds the id of a row of
\* the referenced variant table
InsertMainRow ==
    /\ pc = "database"
    /\ \E id \in RowIds, d \in 0..(Len(shape.ty.variants) - 1),
          values \in [FkColumnNames(MainTable) ->
                         {<<>>} \cup {<<i>> : i \in RowIds}] :
          /\ \A r \in rows : ~(r.table = MainTable.name /\ r.id = id)
          /\ EvalCheck(MainTable.checks[1].expression, d,
                       {c \in DOMAIN values : values[c] # <<>>})
          /\ \A f \in 1..Len(MainTable.foreign_keys) :
                values[MainTable.foreign_keys[f].columns[1]] # <<>> =>
                    \E r \in rows :
                        /\ r.table = MainTable.foreign_keys[f].referenced_table.name
                        /\ <<r.id>> = values[MainTable.foreign_keys[f].columns[1]]
          /\ rows' = rows \cup {Row(MainTable.name, id, d, values)}
    /\ UNCHANGED <<pc, shape, schema, from, to, diff, alter, schema_name, stmts,
                 cow, owned, cow2, owned2>>

\* DELETE of one row: refused while a row references it through a foreign
\* key that is not ON DELETE CASCADE; else the row goes with every row that
\* references it through a foreign key ON DELETE CASCADE
DeleteRow ==
    /\ pc = "database"
    /\ \E r \in rows :
          /\ \A gone \in Cascade(Tables, rows, {r}) :
                Referencing(Tables, rows, gone,
                            {"NoAction", "Restrict", "SetNull", "SetDefault", "None"})
                    \subseteq Cascade(Tables, rows, {r})
          /\ rows' = rows \ Cascade(Tables, rows, {r})
    /\ UNCHANGED <<pc, shape, schema, from, to, diff, alter, schema_name, stmts,
                 cow, owned, cow2, owned2>>

NextDatabase == InsertVariantRow \/ InsertMainRow \/ DeleteRow

SpecDatabase == InitDatabase /\ [][NextDatabase]_vars

(***************************************************************************)
(* Claim about the foreign keys of a compiled enum                         *)
(***************************************************************************)
\* the variant row p is the payload that the main row r references
IsPayloadOf(p, r) ==
    \E f \in 1..Len(MainTable.foreign_keys) :
        /\ p.table = MainTable.foreign_keys[f].referenced_table.name
        /\ r.values[MainTable.foreign_keys[f].columns[1]] = <<p.id>>

\* C17, the declaration: every foreign key of the main table of a compiled
\* enum references a variant table and is ON DELETE CASCADE, ON UPDATE NO
\* ACTION
C17_CascadeNoAction ==
    pc = "database" =>
        /\ MainTable.foreign_keys # <<>>
        /\ \A f \in 1..Len(MainTable.foreign_keys) :
              /\ MainTable.foreign_keys[f].on_delete = "Cascade"
              /\ MainTable.foreign_keys[f].on_update = "NoAction"
              /\ MainTable.foreign_keys[f].referenced_table.name # MainTable.name

\* C17: every foreign key of the main table is ON DELETE CASCADE, ON UPDATE
\* NO ACTION, and whenever a row of the main table is deleted, the variant
\* payload row that it references is deleted with it
C17_DeletingMainRowRemovesPayload ==
    [][/\ C17_CascadeNoAction
       /\ \A r \in rows :
            (r.table = MainTable.name /\ r \notin rows') =>
                \A p \in rows : IsPayloadOf(p, r) => p \notin rows']_vars

\* what the declared keys do: whenever a variant payload row is deleted,
\* every main row that references it is deleted with it
C17_DeletingPayloadRemovesMainRow ==
    [][\A p \in rows :
            (p.table # MainTable.name /\ p \notin rows') =>
                \A r \in rows : (r.table = MainTable.name /\ IsPayloadOf(p, r))
                                    => r \notin rows']_vars

\* a main row that references a payload row
C17_ReferenceReached ==
    \E r, p \in rows : r.table = MainTable.name /\ IsPayloadOf(p, r)


(***************************************************************************)
(* CowShape (src/src/cow_shape.rs, box_cow.rs, vec_cow.rs)                 *)
(***************************************************************************)
\* Cow<str> and BoxCow<T>: a value that is borrowed or owned
Borrowed(v) == [tag |-> "Borrowed", v |-> v]
Owned(v) == [tag |-> "Owned", v |-> v]

\* ShapeList<T, F>: Cow(VecCow::Owned(vec)), Cow(VecCow::Borrowed(slice)), or
\* Facet(slice) holding reflected items that are converted when iterated
ShapeList(tag, items) == [tag |-> tag, items |-> items]

CowDef(kind, t, n) == [kind |-> kind, t |-> t, n |-> n]
CowPrimitive(prim, signed) ==
    [kind |-> "Primitive", prim |-> prim, signed |-> signed, t |-> <<>>,
     user |-> "None", fields |-> <<>>, variants |-> <<>>]
CowSequence(t) ==
    [kind |-> "Sequence", prim |-> "None", signed |-> FALSE, t |-> <<t>>,
     user |-> "None", fields |-> <<>>, variants |-> <<>>]
CowUser(user, fields, variants) ==
    [kind |-> "User", prim |-> "None", signed |-> FALSE, t |-> <<>>,
     user |-> user, fields |-> fields, variants |-> variants]
CowShape(type_identifier, def, ty) ==
    [type_identifier |-> type_identifier, def |-> def, ty |-> ty]
CowField(name, field_shape, doc) ==
    [name |-> name, shape |-> field_shape, doc |-> doc]
CowVariant(name, fields, doc) ==
    [name |-> name, data |-> [fields |-> fields], doc |-> doc]

RECURSIVE CowShapeFromOwned(_), CowShapeTryFrom(_), OwnedShapeFromCow(_)

(***************************************************************************)
(* From<OwnedShape> for CowShape: every string, box and list is owned      *)
(***************************************************************************)
\* f.doc.into_iter().map(Cow::Owned).collect::<Vec<_>>().into()
cow_doc(doc) == ShapeList("CowOwned", [i \in 1..Len(doc) |-> Owned(doc[i])])

cow_fields(fields) ==
    ShapeList("CowOwned",
        [i \in 1..Len(fields) |->
            CowField(Owned(fields[i].name), CowShapeFromOwned(fields[i].shape),
                     cow_doc(fields[i].doc))])

cow_variants(variants) ==
    ShapeList("CowOwned",
        [i \in 1..Len(variants) |->
            CowVariant(Owned(variants[i].name),
                       cow_fields(variants[i].data.fields),
                       cow_doc(variants[i].doc))])

CowDefFromOwned(def) ==
    CASE def.kind \in {"Undefined", "Scalar"} -> CowDef(def.kind, <<>>, 0)
      [] def.kind = "Map" ->
            CowDef("Map", <<CowShapeFromOwned(def.t[1]),
                            CowShapeFromOwned(def.t[2])>>, 0)
      [] def.kind = "Array" ->
            CowDef("Array", <<CowShapeFromOwned(def.t[1])>>, def.n)
      [] OTHER -> CowDef(def.kind, <<CowShapeFromOwned(def.t[1])>>, 0)

CowTypeFromOwned(ty) ==
    CASE ty.kind = "Primitive" -> CowPrimitive(ty.prim, ty.signed)
      [] ty.kind = "Sequence" -> CowSequence(CowShapeFromOwned(ty.t[1]))
      [] ty.user \in {"Struct", "Union"} ->
            CowUser(ty.user, cow_fields(ty.fields), <<>>)
      [] ty.user = "Enum" -> CowUser("Enum", <<>>, cow_variants(ty.variants))
      [] OTHER -> CowUser("Opaque", <<>>, <<>>)

CowShapeFromOwned(o) ==
    CowShape(Owned(o.type_identifier),
             Owned(CowDefFromOwned(o.def)),
             Owned(CowTypeFromOwned(o.ty)))

(***************************************************************************)
(* CowShape::try_from(&facet::Shape): the Def and the Type are converted   *)
(* at once, the fields of a struct or union and the variants of an enum    *)
(* are kept as reflected and converted when the list is iterated           *)
(***************************************************************************)
\* the results of the element conversions, the first error ending them
first_err(rs) ==
    IF \A i \in DOMAIN rs : rs[i].ok
    THEN ConvOk([i \in DOMAIN rs |-> rs[i].value])
    ELSE ConvErr(rs[CHOOSE i \in DOMAIN rs :
                        ~rs[i].ok /\ \A j \in 1..(i - 1) : rs[j].ok].err)

CowTypeTryFrom(s, params) ==
    CASE s.ty.kind = "Primitive" -> ConvOk(CowPrimitive(s.ty.prim, s.ty.signed))
      [] s.ty.kind = "Sequence" -> ConvOk(CowSequence(params[1]))
      [] s.ty.kind = "Pointer" -> ConvErr("PointerNotSupported")
      [] s.ty.user \in {"Struct", "Union"} ->
            ConvOk(CowUser(s.ty.user, ShapeList("Facet", s.ty.fields), <<>>))
      [] s.ty.user = "Enum" ->
            ConvOk(CowUser("Enum", <<>>, ShapeList("Facet", s.ty.variants)))
      [] OTHER -> ConvOk(CowUser("Opaque", <<>>, <<>>))

CowShapeTryFrom(s) ==
    With(first_err([i \in 1..(IF s.def \in {"Option", "List", "Map", "Array"}
                              THEN Len(s.type_params) ELSE 0) |->
                        CowShapeTryFrom(s.type_params[i])]),
       LAMBDA params :
        IF ~params.ok
        THEN ConvErr(params.err)
        ELSE With(CowTypeTryFrom(s, params.value), LAMBDA ty :
                IF ~ty.ok
                THEN ConvErr(ty.err)
                ELSE ConvOk(CowShape(Borrowed(s.type_identifier),
                        Owned(CowDef(s.def, params.value,
                                 IF s.def = "Array"
                                 THEN s.layout.size \div s.type_params[1].layout.size
                                 ELSE 0)),
                        Owned(ty.value)))))

\* CowField::try_from(&facet::Field); a reflected field carries no doc line
\* in this model
CowFieldTryFrom(f) ==
    With(CowShapeTryFrom(f.shape), LAMBDA r :
        IF ~r.ok
        THEN ConvErr(r.err)
        ELSE ConvOk(CowField(Borrowed(f.name), r.value, ShapeList("Facet", <<>>))))

\* CowVariant::try_from(&facet::Variant): the data keeps its fields as
\* reflected, so this conversion never fails
CowVariantTryFrom(v) ==
    ConvOk(CowVariant(Borrowed(v.name), ShapeList("Facet", v.data.fields),
                      ShapeList("Facet", <<>>)))


(***************************************************************************)
(* From<CowShape> for OwnedShape (src/src/owned_shape.rs)                  *)
(***************************************************************************)
\* the panic of expect("Lazy conversion failed")
LazyConversionFailed ==
    [ok |-> FALSE, err |-> "LazyConversionFailed", value |-> <<>>]

\* the items converted one after the other: a panic ends the conversion
all_ok(rs) ==
    IF \A i \in DOMAIN rs : rs[i].ok
    THEN ConvOk([i \in DOMAIN rs |-> rs[i].value])
    ELSE LazyConversionFailed

\* ShapeList::into_iter(): the items of an owned or borrowed vector as they
\* are, a reflected item through T::shape_from(x).expect(..)
into_iter(list, shape_from(_)) ==
    IF list.tag = "Facet"
    THEN all_ok([i \in 1..Len(list.items) |-> shape_from(list.items[i])])
    ELSE ConvOk(list.items)

\* Cow<str>::shape_from(&&'static str); f is the reflected line, tagged
\* "Static"
CowStrShapeFrom(f) == ConvOk(Borrowed(f.v))

\* Cow<str>::into_owned()
into_owned(c) ==
    CASE c.tag = "Borrowed" -> c.v
      [] c.tag = "Owned" -> c.v

\* f.doc.into_iter().map(|s| s.into_owned()).collect()
owned_doc(doc) ==
    With(into_iter(doc, CowStrShapeFrom), LAMBDA lines :
        [i \in 1..Len(lines.value) |-> into_owned(lines.value[i])])

OwnedFieldFromCow(f) ==
    With(OwnedShapeFromCow(f.shape), LAMBDA s :
        IF ~s.ok
        THEN LazyConversionFailed
        ELSE ConvOk([name |-> into_owned(f.name), shape |-> s.value,
                     doc |-> owned_doc(f.doc)]))

\* s.fields.into_iter().map(Into::into).collect()
OwnedStructTypeFromCow(fields) ==
    With(into_iter(fields, CowFieldTryFrom), LAMBDA items :
        IF ~items.ok
        THEN LazyConversionFailed
        ELSE all_ok([i \in 1..Len(items.value) |->
                        OwnedFieldFromCow(items.value[i])]))

OwnedVariantFromCow(v) ==
    With(OwnedStructTypeFromCow(v.data.fields), LAMBDA fs :
        IF ~fs.ok
        THEN LazyConversionFailed
        ELSE ConvOk([name |-> into_owned(v.name), data |-> [fields |-> fs.value],
                     doc |-> owned_doc(v.doc)]))

\* e.variants.into_iter().map(Into::into).collect()
OwnedEnumTypeFromCow(variants) ==
    With(into_iter(variants, CowVariantTryFrom), LAMBDA items :
        IF ~items.ok
        THEN LazyConversionFailed
        ELSE all_ok([i \in 1..Len(items.value) |->
                        OwnedVariantFromCow(items.value[i])]))

OwnedDefFromCow(def) ==
    With(all_ok([i \in 1..Len(def.t) |-> OwnedShapeFromCow(def.t[i])]),
       LAMBDA ts :
        IF ~ts.ok
        THEN LazyConversionFailed
        ELSE ConvOk(OwnedDef(def.kind, ts.value,
                             IF def.kind = "Array" THEN def.n ELSE 0)))

OwnedTypeFromCow(ty) ==
    CASE ty.kind = "Primitive" -> ConvOk(OwnedPrimitive(ty.prim, ty.signed))
      [] ty.kind = "Sequence" ->
            With(OwnedShapeFromCow(ty.t[1]), LAMBDA t :
                IF ~t.ok THEN LazyConversionFailed
                ELSE ConvOk(OwnedSequence(t.value)))
      [] ty.user \in {"Struct", "Union"} ->
            With(OwnedStructTypeFromCow(ty.fields), LAMBDA fs :
                IF ~fs.ok THEN LazyConversionFailed
                ELSE ConvOk(OwnedUser(ty.user, fs.value, <<>>)))
      [] ty.user = "Enum" ->
            With(OwnedEnumTypeFromCow(ty.variants), LAMBDA vs :
                IF ~vs.ok THEN LazyConversionFailed
                ELSE ConvOk(OwnedUser("Enum", <<>>, vs.value)))
      [] OTHER -> ConvOk(OwnedUser("Opaque", <<>>, <<>>))

\* a borrowed Def or Type is cloned, an owned one unboxed, then converted
unbox(b) ==
    CASE b.tag = "Borrowed" -> b.v
      [] b.tag = "Owned" -> b.v

OwnedShapeFromCow(c) ==
    With(OwnedDefFromCow(unbox(c.def)), LAMBDA d :
        IF ~d.ok
        THEN LazyConversionFailed
        ELSE With(OwnedTypeFromCow(unbox(c.ty)), LAMBDA t :
                IF ~t.ok
                THEN LazyConversionFailed
                ELSE ConvOk(OwnedShape(into_owned(c.type_identifier),
                                       d.value, t.value))))

(***************************************************************************)
(* What a CowShape says when it is read: its identifier, Def and Type, the *)
(* names of its fields and variants in order, and its doc lines            *)
(***************************************************************************)
RECURSIVE CowContent(_)

content_fields(fields) ==
    With(into_iter(fields, CowFieldTryFrom), LAMBDA items :
        [i \in 1..Len(items.value) |->
            [name |-> items.value[i].name.v,
             shape |-> CowContent(items.value[i].shape),
             doc |-> owned_doc(items.value[i].doc)]])

content_variants(variants) ==
    With(into_iter(variants, CowVariantTryFrom), LAMBDA items :
        [i \in 1..Len(items.value) |->
            [name |-> items.value[i].name.v,
             fields |-> content_fields(items.value[i].data.fields),
             doc |-> owned_doc(items.value[i].doc)]])

CowContent(c) ==
    [type_identifier |-> c.type_identifier.v,
     def |-> [kind |-> c.def.v.kind, n |-> c.def.v.n,
              t |-> [i \in 1..Len(c.def.v.t) |-> CowContent(c.def.v.t[i])]],
     ty |-> [kind |-> c.ty.v.kind, prim |-> c.ty.v.prim,
             signed |-> c.ty.v.signed, user |-> c.ty.v.user,
             t |-> [i \in 1..Len(c.ty.v.t) |-> CowContent(c.ty.v.t[i])],
             fields |-> IF c.ty.v.user \in {"Struct", "Union"}
                        THEN content_fields(c.ty.v.fields) ELSE <<>>,
             variants |-> IF c.ty.v.user = "Enum"
                          THEN content_variants(c.ty.v.variants) ELSE <<>>]]


(***************************************************************************)
(* The shapes of the round trips                                           *)
(***************************************************************************)
\* records, enums and unions whose fields and variants carry doc lines
DocField(name, field_shape, doc) ==
    [name |-> name, shape |-> field_shape, doc |-> doc]
DocShapes ==
    {o_Struct(<<"D">>, <<DocField(<<"a">>, o_u32, <<"the first">>),
                         DocField(<<"b">>, o_String, <<"one", "two">>)>>),
     o_Struct(<<"D">>, <<DocField(<<"b">>, o_String, <<"two", "one">>),
                         DocField(<<"a">>, o_u32, <<>>)>>),
     o_Enum(<<"E">>, <<[name |-> <<"A">>, doc |-> <<"unit">>,
                        data |-> [fields |-> <<>>]],
                       [name |-> <<"B">>, doc |-> <<>>,
                        data |-> [fields |->
                            <<DocField(<<"0">>, o_Option(o_u32), <<"payload">>)>>]]>>),
     o_Union(<<"U">>, <<DocField(<<"i">>, o_u32, <<"as integer">>),
                        DocField(<<"f">>, o_f64, <<"as float">>)>>)}
RoundTripShapes == VariedShapes \cup DocShapes

\* a CowShape built by hand: the content of o with every string tagged s,
\* every box tagged b, every list of fields or variants tagged l and every
\* list of doc lines tagged d (a reflected list of doc lines holds static
\* lines)
RECURSIVE CowOf(_, _, _, _, _)
CowOfDoc(doc, s, d) ==
    ShapeList(d, [i \in 1..Len(doc) |->
                    [tag |-> IF d = "Facet" THEN "Static" ELSE s, v |-> doc[i]]])
CowOfFields(fields, s, b, l, d) ==
    ShapeList(l, [i \in 1..Len(fields) |->
        CowField([tag |-> s, v |-> fields[i].name],
                 CowOf(fields[i].shape, s, b, l, d),
                 CowOfDoc(fields[i].doc, s, d))])
CowOf(o, s, b, l, d) ==
    CowShape([tag |-> s, v |-> o.type_identifier],
        [tag |-> b,
         v |-> CowDef(o.def.kind,
                      [i \in 1..Len(o.def.t) |-> CowOf(o.def.t[i], s, b, l, d)],
                      o.def.n)],
        [tag |-> b,
         v |-> [kind |-> o.ty.kind, prim |-> o.ty.prim, signed |-> o.ty.signed,
                user |-> o.ty.user,
                t |-> [i \in 1..Len(o.ty.t) |-> CowOf(o.ty.t[i], s, b, l, d)],
                fields |-> IF o.ty.user \in {"Struct", "Union"}
                           THEN CowOfFields(o.ty.fields, s, b, l, d) ELSE <<>>,
                variants |-> IF o.ty.user = "Enum"
                             THEN ShapeList(l, [i \in 1..Len(o.ty.variants) |->
                                CowVariant([tag |-> s, v |-> o.ty.variants[i].name],
                                    CowOfFields(o.ty.variants[i].data.fields,
                                                s, b, l, d),
                                    CowOfDoc(o.ty.variants[i].doc, s, d))])
                             ELSE <<>>]])

Tags == {"Borrowed", "Owned"}
HandCows ==
    {CowOf(o, s, b, l, d) : o \in RoundTripShapes, s \in Tags, b \in Tags,
                            l \in {"CowOwned", "CowBorrowed"},
                            d \in {"CowOwned", "CowBorrowed", "Facet"}}

\* the reflected shapes handed to CowShape::try_from
ReflectedShapes ==
    FieldShapes \cup OneFieldRecords \cup Records \cup OneVariantEnums

(***************************************************************************)
(* State machine of the round trips: a CowShape, built by hand or from a   *)
(* reflected shape, to an OwnedShape and back; an OwnedShape to a CowShape *)
(* and back                                                                *)
(***************************************************************************)
InitRoundTrip ==
    /\ pc \in {"reflected", "cow", "owned"}
    /\ shape \in IF pc = "reflected" THEN ReflectedShapes ELSE {NoShape}
    /\ cow \in IF pc = "cow" THEN HandCows ELSE {<<>>}
    /\ owned \in IF pc = "owned" THEN {ConvOk(o) : o \in RoundTripShapes}
                 ELSE {<<>>}
    /\ cow2 = <<>>
    /\ owned2 = <<>>
    /\ schema = NoSchema
    /\ from = NoOwnedShape
    /\ to = NoOwnedShape
    /\ diff = NoDiff
    /\ alter = NoAlter
    /\ schema_name = <<>>
    /\ stmts = <<>>
    /\ rows = {}

\* let cow = CowShape::try_from(T::SHAPE): an Err ends the run
CowTryFrom ==
    /\ pc = "reflected"
    /\ With(CowShapeTryFrom(shape), LAMBDA r :
            IF r.ok
            THEN cow' = r.value /\ pc' = "cow"
            ELSE cow' = cow /\ pc' = "refused")
    /\ UNCHANGED <<shape, schema, from, to, diff, alter, schema_name, stmts,
                   rows, owned, cow2, owned2>>

\* let owned: OwnedShape = cow.clone().into(): a panic ends the run
CowToOwned ==
    /\ pc = "cow"
    /\ owned' = OwnedShapeFromCow(cow)
    /\ pc' = IF owned'.ok THEN "cow_owned" ELSE "panicked"
    /\ UNCHANGED <<shape, schema, from, to, diff, alter, schema_name, stmts,
                   rows, cow, cow2, owned2>>

\* let cow2: CowShape = owned.into()
OwnedToCow2 ==
    /\ pc = "cow_owned"
    /\ cow2' = CowShapeFromOwned(owned.value)
    /\ pc' = "cow_owned_cow"
    /\ UNCHANGED <<shape, schema, from, to, diff, alter, schema_name, stmts,
                   rows, cow, owned, owned2>>

\* let cow: CowShape = owned.clone().into()
OwnedToCow ==
    /\ pc = "owned"
    /\ cow' = CowShapeFromOwned(owned.value)
    /\ pc' = "owned_cow"
    /\ UNCHANGED <<shape, schema, from, to, diff, alter, schema_name, stmts,
                   rows, owned, cow2, owned2>>

\* let owned2: OwnedShape = cow.into()
CowToOwned2 ==
    /\ pc = "owned_cow"
    /\ owned2' = OwnedShapeFromCow(cow)
    /\ pc' = "owned_cow_owned"
    /\ UNCHANGED <<shape, schema, from, to, diff, alter, schema_name, stmts,
                   rows, cow, owned, cow2>>

\* let direct = OwnedShape::try_from(T::SHAPE), once the path through
\* CowShape has ended
DirectTryFrom ==
    /\ pc \in {"refused", "panicked", "cow_owned_cow"}
    /\ shape # NoShape
    /\ owned2 = <<>>
    /\ owned2' = OwnedShapeTryFrom(shape)
    /\ UNCHANGED <<pc, shape, schema, from, to, diff, alter, schema_name, stmts,
                   rows, cow, owned, cow2>>

NextRoundTrip ==
    \/ CowTryFrom
    \/ CowToOwned
    \/ OwnedToCow2
    \/ OwnedToCow
    \/ CowToOwned2
    \/ DirectTryFrom

SpecRoundTrip == InitRoundTrip /\ [][NextRoundTrip]_vars


(***************************************************************************)
(* The round trips                                                         *)
(***************************************************************************)
\* C19: the two representations round-trip. A CowShape converted to an
\* OwnedShape and back is a CowShape with the same type identifier, Def,
\* Type, field and variant names in the same order and the same docs, and an
\* OwnedShape converted to a CowShape and back is equal to the original.
\* As stated: every conversion of a CowShape ends with an OwnedShape, and
\* the shape that comes back says what the first one said.
C19_RoundTrip ==
    /\ pc # "panicked"
    /\ pc = "cow_owned_cow" => CowContent(cow2) = CowContent(cow)
    /\ pc = "owned_cow_owned" => owned2.ok /\ owned2.value = owned.value

\* what holds of C19: whenever the conversion to an OwnedShape ends, the
\* CowShape that comes back says what the first one said, with every string,
\* box and list owned; and the round trip that starts from an OwnedShape
\* always ends with an equal OwnedShape
C19_RoundTripWhenConverted ==
    /\ pc = "cow_owned_cow" =>
            /\ CowContent(cow2) = CowContent(cow)
            /\ cow2 = CowOf(owned.value, "Owned", "Owned", "CowOwned", "CowOwned")
    /\ pc = "owned_cow_owned" => owned2.ok /\ owned2.value = owned.value

\* a CowShape that CowShape::try_from returned for a record with a field of
\* a pointer type: its conversion to an OwnedShape panics
C19_ReflectedPanics ==
    /\ pc = "panicked"
    /\ cow = CowShapeTryFrom(shape).value
    /\ shape \in OneFieldRecords
    /\ shape.ty.fields[1].shape = RefStrShape

\* the round trips of the tests: a reflected record through CowShape to an
\* OwnedShape and back, and an OwnedShape with doc lines and back
C19_CowRoundTripReached ==
    /\ pc = "cow_owned_cow"
    /\ shape \in Records
    /\ Len(shape.ty.fields) = 2
    /\ cow2 # cow
C19_OwnedRoundTripReached ==
    /\ pc = "owned_cow_owned"
    /\ owned.value \in DocShapes

\* a CowShape built by hand with borrowed boxes and reflected doc lines
\* comes back with the same content and other wrappers
C19_BorrowedComesBackOwned ==
    /\ pc = "cow_owned_cow"
    /\ cow.def.tag = "Borrowed"
    /\ cow2.def.tag = "Owned"
    /\ owned.value \in DocShapes
    /\ cow.ty.v.fields.tag = "CowBorrowed"
    /\ cow.ty.v.fields.items[1].doc.tag = "Facet"

\* no CowShape built by hand panics: only a reflected list does
C19_OnlyReflectedListsPanic == pc = "panicked" => shape # NoShape


\* the pass a kind of statement belongs to; a COMMENT ON statement belongs to
\* the pass of the statement it follows
PassOfKind(kind) ==
    CASE kind = "CreateSchema" -> 0
      [] kind = "CreateEnumType" -> 1
      [] kind = "CreateSequence" -> 2
      [] kind = "CreateCompositeType" -> 3
      [] kind = "CreateDomain" -> 4
      [] kind \in {"CreateTable", "AddUnique", "AddCheck"} -> 5
      [] kind \in {"CreateView", "CreateMaterializedView"} -> 6
      [] kind = "CreateIndex" -> 7
      [] kind = "AddForeignKey" -> 8
      [] OTHER -> 9
IsComment(kind) ==
    kind \in {"CommentOnType", "CommentOnSequence", "CommentOnDomain",
              "CommentOnView", "CommentOnMaterializedView"}
PassOf(i) ==
    IF IsComment(stmts[i].kind) /\ i > 1
    THEN PassOfKind(stmts[i - 1].kind)
    ELSE PassOfKind(stmts[i].kind)

\* what the table pass is to hold for one table: its CREATE TABLE, then one
\* statement per UNIQUE constraint, then one per CHECK constraint
TableStatements(t) ==
    <<[kind |-> "CreateTable", on |-> schema_name \o <<".">> \o t.name]>>
        \o [i \in 1..Len(t.uniques) |->
                [kind |-> "AddUnique", on |-> schema_name \o <<".">> \o t.name]]
        \o [i \in 1..Len(t.checks) |->
                [kind |-> "AddCheck", on |-> schema_name \o <<".">> \o t.name]]
IsTableStatement(s) == PassOfKind(s.kind) = 5
IsNotPrimary(idx) == ~idx.is_primary
KindAndTable(ss) == [i \in 1..Len(ss) |-> [kind |-> ss[i].kind, on |-> ss[i].on]]

\* C21: the statements appear in passes, none of a later pass before one of
\* an earlier pass: CREATE SCHEMA first, then enum types, sequences,
\* composite types and domains in that order, then per table its CREATE
\* TABLE immediately followed by its UNIQUE and then its CHECK constraints,
\* then the views, then the indexes of all tables with no statement for an
\* index marked is_primary, then the foreign keys of all tables.
C21_PassesInOrder ==
    /\ \A i, j \in 1..Len(stmts) : i < j => PassOf(i) <= PassOf(j)
    /\ \A i \in 1..Len(stmts) : PassOf(i) = 0 <=> i = 1
    /\ pc \notin {"start", "schema_created", "types_created"} =>
            KindAndTable(SelectSeq(stmts, IsTableStatement))
                = Concat([k \in 1..Len(schema.value.tables) |->
                            TableStatements(schema.value.tables[k])])
    /\ pc \in {"indexes_created", "done"} =>
            [i \in 1..Cardinality(StmtsOfKind("CreateIndex")) |->
                    SelectSeq(stmts, LAMBDA s : s.kind = "CreateIndex")[i].detail.columns]
                = Concat([k \in 1..Len(schema.value.tables) |->
                    [i \in 1..Len(SelectSeq(schema.value.tables[k].indexes, IsNotPrimary)) |->
                        SelectSeq(schema.value.tables[k].indexes, IsNotPrimary)[i].columns]])
    /\ pc = "done" =>
            Cardinality(StmtsOfKind("AddForeignKey"))
                = Len(Concat([k \in 1..Len(schema.value.tables) |->
                                schema.value.tables[k].foreign_keys]))

\* a rendering that has a statement of every pass, a table with a UNIQUE and
\* a CHECK constraint given before another table, and an index marked
\* is_primary that got no statement
C21_Witness ==
    /\ pc = "done"
    /\ {PassOf(i) : i \in 1..Len(stmts)} = 0..8
    /\ \E i \in 1..Len(stmts) : IsComment(stmts[i].kind)
    /\ Len(schema.value.tables) = 3
    /\ schema.value.tables[1].uniques # <<>>
    /\ schema.value.tables[1].checks # <<>>
    /\ \E k \in 1..3 : \E x \in 1..Len(schema.value.tables[k].indexes) :
            schema.value.tables[k].indexes[x].is_primary
    /\ Cardinality(StmtsOfKind("CreateIndex")) = 1


(***************************************************************************)
(* The CHECK constraint of a compiled enum                                 *)
(***************************************************************************)
\* C22: the main table of a compiled enum carries exactly one CHECK
\* constraint, named variant_integrity; its expression is the conjunction of
\* one clause (CASE WHEN discriminant = i THEN c IS NOT NULL ELSE c IS NULL
\* END) per non-unit variant, i the variant's index among all variants in
\* declaration order and c its '<variant>_id' column, and it is '1=1' when
\* the enum has no non-unit variant.
C22_VariantIntegrityCheck ==
    (CompiledEnum /\ schema.ok) =>
        /\ Len(MainTable.checks) = 1
        /\ MainTable.checks[1].name = sVariantIntegrity
        /\ \A t \in 1..Len(Tables) :
              Tables[t].checks # <<>> =>
                  Tables[t].name = to_lowercase(shape.type_identifier)
        /\ IF NonUnitPositions(shape.ty.variants) = <<>>
           THEN MainTable.checks[1].expression
                    = [literal |-> "1=1", conjuncts |-> <<>>]
           ELSE /\ MainTable.checks[1].expression.literal = "None"
                /\ MainTable.checks[1].expression.conjuncts
                     = [k \in 1..Len(NonUnitPositions(shape.ty.variants)) |->
                          [when_discriminant |->
                                NonUnitPositions(shape.ty.variants)[k] - 1,
                           then_is_not_null |->
                                VariantFkColumn(shape.ty.variants[
                                    NonUnitPositions(shape.ty.variants)[k]]),
                           else_is_null |->
                                VariantFkColumn(shape.ty.variants[
                                    NonUnitPositions(shape.ty.variants)[k]])]]

\* an enum whose first variant is a unit variant and whose two other variants
\* carry data: the clauses are those of the indexes 1 and 2
C22_Witness ==
    /\ CompiledEnum
    /\ schema.ok
    /\ Len(shape.ty.variants) = 3
    /\ NonUnitPositions(shape.ty.variants) = <<2, 3>>
    /\ Len(MainTable.checks[1].expression.conjuncts) = 2
    /\ MainTable.checks[1].expression.conjuncts[1].when_discriminant = 1
    /\ MainTable.checks[1].expression.conjuncts[2].when_discriminant = 2

\* an enum of unit variants only (enum Status of the tests): the expression
\* is 1=1
C22_UnitOnlyReached ==
    /\ CompiledEnum
    /\ schema.ok
    /\ shape.ty.variants # <<>>
    /\ NonUnitPositions(shape.ty.variants) = <<>>
    /\ MainTable.checks[1].expression.literal = "1=1"


\* C23: rendering a User/Struct diff whose insertions, deletions and updates
\* are all empty fails with the error "No column changes found" and produces
\* no statement.
C23_NoColumnChanges ==
    (/\ Rendered
     /\ diff.kind = "User"
     /\ diff.value.insertions = {}
     /\ diff.value.deletions = {}
     /\ DOMAIN diff.value.updates = {}) =>
        /\ ~alter.ok
        /\ alter.err = RenderErr("NoColumnChanges", <<>>)
        /\ alter.statement = <<>>

\* two records with the same fields and different identifiers, the fields
\* all unchanged, have been rendered
C23_Witness ==
    /\ Rendered
    /\ diff.kind = "User"
    /\ ~HasChanges
    /\ diff.value.unchanged # {}
    /\ from.type_identifier # to.type_identifier
    /\ from.ty.fields = to.ty.fields
    /\ ~alter.ok

\* the same fields in another order: no change either, and the same error
C23_ReorderedReached ==
    /\ Rendered
    /\ diff.kind = "User"
    /\ ~HasChanges
    /\ from.type_identifier = to.type_identifier
    /\ from.ty.fields # to.ty.fields
    /\ alter.err.kind = "NoColumnChanges"


(***************************************************************************)
(* Names of the tables and columns of a compiled schema                    *)
(***************************************************************************)
\* a shape a derive can produce: the field names of a record, the names of
\* the variants of an enum and the field names of each variant are distinct
HasDistinctVariantNames(variants) ==
    \A i, j \in 1..Len(variants) : i # j => variants[i].name # variants[j].name
Derivable(s) ==
    /\ HasDistinctNames(s.ty.fields)
    /\ HasDistinctVariantNames(s.ty.variants)
    /\ \A v \in 1..Len(s.ty.variants) : HasDistinctNames(s.ty.variants[v].data.fields)
HasDistinctColumnNames(t) ==
    \A i, j \in 1..Len(t.columns) : i # j => t.columns[i].name # t.columns[j].name
HasDistinctTableNames(tables) ==
    \A i, j \in 1..Len(tables) : i # j => tables[i].name # tables[j].name

\* C24: every table of a successful compile has pairwise distinct column
\* names and the tables of the schema have pairwise distinct names, for every
\* record or enum shape (checked on the shapes a derive can produce).
C24_DistinctNames ==
    (Compiled /\ schema.ok /\ Derivable(shape)) =>
        /\ HasDistinctTableNames(Tables)
        /\ \A t \in 1..Len(Tables) : HasDistinctColumnNames(Tables[t])

\* enum Ev { V { id: u64 } }: the table ev_v has the column id twice
C24_IdFieldReached ==
    /\ CompiledEnum
    /\ schema.ok
    /\ Derivable(shape)
    /\ Len(shape.ty.variants) = 1
    /\ \E t \in 1..Len(Tables) :
          /\ Tables[t].name = VariantTableName(shape, shape.ty.variants[1])
          /\ Len(Tables[t].columns) = 2
          /\ Tables[t].columns[1].name = sId
          /\ Tables[t].columns[2].name = sId

\* enum Thingy { A { a: usize }, a { a: usize } }: two tables thingy_a and
\* two columns a_id of the main table
C24_CaseOnlyReached ==
    /\ CompiledEnum
    /\ schema.ok
    /\ Derivable(shape)
    /\ ~HasDistinctTableNames(Tables)
    /\ ~HasDistinctColumnNames(MainTable)

\* the records a derive can produce compile to one table of distinct columns
C24_RecordsHaveDistinctNames ==
    (CompiledRecord /\ schema.ok /\ Derivable(shape)) =>
        /\ HasDistinctTableNames(Tables)
        /\ \A t \in 1..Len(Tables) : HasDistinctColumnNames(Tables[t])


(***************************************************************************)
(* The table named after REFERENCES                                        *)
(***************************************************************************)
\* the schema was compiled from an enum: one of its tables has the
\* discriminant column
IsCompiledEnumSchema(s) ==
    \E t \in 1..Len(s.tables) :
        \E c \in 1..Len(s.tables[t].columns) :
            s.tables[t].columns[c].name = sDiscriminant

\* C25: in the DDL of a compiled enum schema, the table named after
\* REFERENCES in each FOREIGN KEY statement is the name under which the
\* CREATE TABLE statement of that variant table was emitted, the
\* schema-qualified schema_name.<table>.
C25_ReferencesCreatedName ==
    (pc = "done" /\ IsCompiledEnumSchema(schema.value)) =>
        \A j \in StmtsOfKind("AddForeignKey") :
            \E i \in StmtsOfKind("CreateTable") :
                stmts[i].on = stmts[j].detail.references

\* the rendering of a compiled enum with a data variant is complete: its
\* foreign key names the variant table without the schema, the CREATE TABLE
\* of that table names it with the schema
C25_UnqualifiedReached ==
    /\ pc = "done"
    /\ IsCompiledEnumSchema(schema.value)
    /\ \E j \in StmtsOfKind("AddForeignKey") :
          \E k \in 1..Len(schema.value.tables) :
              /\ stmts[j].detail.references = schema.value.tables[k].name
              /\ \E i \in StmtsOfKind("CreateTable") :
                    stmts[i].on = qualified(<<schema_name>>, schema.value.tables[k].name)
              /\ \A i \in StmtsOfKind("CreateTable") :
                    stmts[i].on # stmts[j].detail.references

\* what the code does: the name after REFERENCES is the bare name of a table
\* of the schema
C25_ReferencesBareName ==
    (pc = "done" /\ IsCompiledEnumSchema(schema.value)) =>
        \A j \in StmtsOfKind("AddForeignKey") :
            \E k \in 1..Len(schema.value.tables) :
                stmts[j].detail.references = schema.value.tables[k].name


(***************************************************************************)
(* The table name of a record in the three renderings                      *)
(***************************************************************************)
\* the ALTER statement, the CREATE statement and the compiled schema of the
\* record `shape` are there
ThreeNames ==
    /\ pc = "compiled_to"
    /\ IsRecordShape(shape)
    /\ alter.ok
    /\ stmts # <<>>
    /\ schema.ok

\* C26: for every record shape, the table that the ALTER statement of a diff
\* to that shape targets, the table of the TableCreateStatement built from
\* the shape and the table that the ShapeCompiler gives the shape have the
\* same name.
C26_SameTableName ==
    ThreeNames =>
        /\ alter.statement[1].table = stmts[1].table
        /\ stmts[1].table = Tables[1].name

\* struct User { id: u64 }: ALTER TABLE "User", CREATE TABLE "User", and the
\* compiled table user
C26_NamesDifferReached ==
    /\ ThreeNames
    /\ shape.type_identifier = <<"U","s","e","r">>
    /\ alter.statement[1].table = <<"U","s","e","r">>
    /\ stmts[1].table = <<"U","s","e","r">>
    /\ Tables[1].name = <<"u","s","e","r">>

\* what the code does: the two sea_query statements name the type identifier
\* as it is, the compiler its lower-case form
C26_NamesOfTheCode ==
    ThreeNames =>
        /\ alter.statement[1].table = shape.type_identifier
        /\ stmts[1].table = shape.type_identifier
        /\ Tables[1].name = to_lowercase(shape.type_identifier)

\* struct user { id: u64 }: the three names agree
C26_LowerCaseAgreesReached ==
    /\ ThreeNames
    /\ shape.type_identifier = <<"u","s","e","r">>
    /\ alter.statement[1].table = stmts[1].table
    /\ stmts[1].table = Tables[1].name


(***************************************************************************)
(* A User diff without changes                                             *)
(***************************************************************************)
\* C27: a User/Struct diff returned by Diff::new has an update, a deletion
\* or an insertion, hence rendering the diff of two records never fails with
\* 'No column changes found'.
C27_UserDiffHasChanges ==
    /\ (pc \in {"diffed", "rendered"} /\ diff.kind = "User") => HasChanges
    /\ (Rendered /\ IsOwnedRecord(from) /\ IsOwnedRecord(to)) =>
            alter.err.kind # "NoColumnChanges"

\* struct P {} against struct Q {} (the empty structs of the tests): a User
\* diff with every set empty, and the render fails
C27_EmptyStructsReached ==
    /\ Rendered
    /\ from = o_Struct(<<"P">>, <<>>)
    /\ to = o_Struct(<<"Q">>, <<>>)
    /\ diff.kind = "User"
    /\ ~HasChanges
    /\ diff.value.unchanged = {}
    /\ alter.err.kind = "NoColumnChanges"

\* the same record with its fields in another order: every field unchanged,
\* and the render fails
C27_ReorderedFieldsReached ==
    /\ Rendered
    /\ from.type_identifier = to.type_identifier
    /\ IsReordering(from.ty.fields, to.ty.fields)
    /\ diff.kind = "User"
    /\ ~HasChanges
    /\ diff.value.unchanged = FieldNames(from.ty.fields)
    /\ alter.err.kind = "NoColumnChanges"

\* where the claim holds: two records of one type identifier whose fields
\* are not the same fields in another order
C27_HoldsUnlessRenamedOrReordered ==
    (/\ pc \in {"diffed", "rendered"}
     /\ diff.kind = "User"
     /\ HasDistinctNames(from.ty.fields)
     /\ HasDistinctNames(to.ty.fields)
     /\ from.type_identifier = to.type_identifier
     /\ from.def = to.def
     /\ ~IsReordering(from.ty.fields, to.ty.fields)) => HasChanges


(***************************************************************************)
(* The four sets of a User diff                                            *)
(***************************************************************************)
PairwiseDisjoint(sets) ==
    \A i, j \in 1..Len(sets) : i # j => sets[i] \cap sets[j] = {}

\* C28: in every User/Struct diff, of records with repeated field names
\* too, the keys of updates and the sets deletions, insertions and unchanged
\* are pairwise disjoint; updates, deletions and unchanged together are the
\* from field names, and updates, insertions and unchanged together are the
\* to field names.
C28_FourSetsPartition ==
    (Diffed /\ diff.kind = "User") =>
        /\ PairwiseDisjoint(<<DOMAIN diff.value.updates, diff.value.deletions,
                              diff.value.insertions, diff.value.unchanged>>)
        /\ DOMAIN diff.value.updates \cup diff.value.deletions
                \cup diff.value.unchanged = FieldNames(from.ty.fields)
        /\ DOMAIN diff.value.updates \cup diff.value.insertions
                \cup diff.value.unchanged = FieldNames(to.ty.fields)

\* from = struct P { a: u32, a: In }, to = struct P { a: u32 }: the name a is
\* unchanged by the first field and updated by the second
C28_BothUnchangedAndUpdatedReached ==
    /\ Diffed
    /\ diff.kind = "User"
    /\ Len(from.ty.fields) = 2
    /\ from.ty.fields[1].name = from.ty.fields[2].name
    /\ HasDistinctNames(to.ty.fields)
    /\ diff.value.unchanged \cap DOMAIN diff.value.updates # {}

\* on records with distinct field names the four sets are a partition
C28_PartitionOnDistinctNames ==
    (/\ Diffed
     /\ diff.kind = "User"
     /\ HasDistinctNames(from.ty.fields)
     /\ HasDistinctNames(to.ty.fields)) =>
        /\ PairwiseDisjoint(<<DOMAIN diff.value.updates, diff.value.deletions,
                              diff.value.insertions, diff.value.unchanged>>)
        /\ DOMAIN diff.value.updates \cup diff.value.deletions
                \cup diff.value.unchanged = FieldNames(from.ty.fields)
        /\ DOMAIN diff.value.updates \cup diff.value.insertions
                \cup diff.value.unchanged = FieldNames(to.ty.fields)


(***************************************************************************)
(* The path through CowShape against the direct conversion                 *)
(***************************************************************************)
\* both conversions of the reflection shape have ended
BothPathsEnded == shape # NoShape /\ owned2 # <<>>

\* C29: converting a reflection shape to a CowShape and then to an
\* OwnedShape has the outcome of converting it to an OwnedShape directly:
\* the same OwnedShape, or an Err on both paths, and no conversion of the
\* CowShape panics.
C29_SameOutcomeAsDirect ==
    BothPathsEnded =>
        /\ pc # "panicked"
        /\ pc = "refused" => ~owned2.ok
        /\ pc = "cow_owned_cow" => owned2.ok /\ owned2.value = owned.value

\* struct Rec { x: &str }: the direct conversion returns Err, the path
\* through CowShape returned Ok(cow) and then panicked
C29_PanicWhereDirectIsErrReached ==
    /\ BothPathsEnded
    /\ pc = "panicked"
    /\ IsRecordShape(shape)
    /\ CowShapeTryFrom(shape).ok
    /\ ~owned2.ok

\* an enum with a variant field of a pointer type panics the same way
C29_VariantPanicReached ==
    /\ BothPathsEnded
    /\ pc = "panicked"
    /\ IsEnumShape(shape)
    /\ ~owned2.ok

\* what holds: where the path through CowShape ends without a panic the two
\* outcomes are the same, and it panics exactly where the direct conversion
\* returns Err below the top level
C29_SameOutcomeUnlessPanic ==
    BothPathsEnded =>
        /\ pc = "refused" => ~owned2.ok /\ owned2.err = CowShapeTryFrom(shape).err
        /\ pc = "cow_owned_cow" => owned2.ok /\ owned2.value = owned.value
        /\ pc = "panicked" => ~owned2.ok /\ CowShapeTryFrom(shape).ok

\* the two paths agree on a record of the tests
C29_AgreementReached ==
    /\ BothPathsEnded
    /\ pc = "cow_owned_cow"
    /\ shape \in Records
    /\ Len(shape.ty.fields) = 2
    /\ owned2 = owned

\* both paths return Err for a shape that is itself a pointer
C29_BothErrReached ==
    /\ BothPathsEnded
    /\ pc = "refused"
    /\ ~owned2.ok


(***************************************************************************)
(* The diff in the other direction                                         *)
(***************************************************************************)
\* two records with distinct field names were diffed
DistinctRecordsDiffed ==
    /\ Diffed
    /\ IsOwnedRecord(from)
    /\ IsOwnedRecord(to)
    /\ HasDistinctNames(from.ty.fields)
    /\ HasDistinctNames(to.ty.fields)

\* the relation of Diff::new(a, b) to Diff::new(b, a)
IsMirror(d, mirror) ==
    /\ d.kind = "Equal" <=> mirror.kind = "Equal"
    /\ (d.kind = "User" /\ mirror.kind = "User") =>
          /\ d.value.insertions = mirror.value.deletions
          /\ d.value.deletions = mirror.value.insertions
          /\ d.value.unchanged = mirror.value.unchanged
          /\ DOMAIN d.value.updates = DOMAIN mirror.value.updates

\* C30: on records with distinct field names Diff::new(a, b) is Equal
\* exactly when Diff::new(b, a) is, and when both are User/Struct diffs the
\* insertions of one are the deletions of the other, the unchanged sets are
\* equal and the update key sets are equal.
C30_MirrorSymmetric ==
    DistinctRecordsDiffed => IsMirror(diff, DiffNew(to, from))

\* struct P { a, b } against struct P { a, c }: b is deleted and c inserted
\* one way, c deleted and b inserted the other way, a unchanged both ways
C30_Witness ==
    /\ DistinctRecordsDiffed
    /\ diff.kind = "User"
    /\ diff.value.insertions # {}
    /\ diff.value.deletions # {}
    /\ diff.value.unchanged # {}
    /\ diff.value.insertions # diff.value.deletions
    /\ DiffNew(to, from).value.deletions = diff.value.insertions
    /\ DiffNew(to, from).value.insertions = diff.value.deletions

\* a field added (PersonV1 to PersonV2 of the tests) and a field updated:
\* the update is an update both ways
C30_UpdateReached ==
    /\ DistinctRecordsDiffed
    /\ diff.kind = "User"
    /\ Len(from.ty.fields) = 1
    /\ Len(to.ty.fields) = 2
    /\ DOMAIN diff.value.updates # {}
    /\ diff.value.insertions # {}
    /\ DOMAIN DiffNew(to, from).value.updates = DOMAIN diff.value.updates
    /\ DiffNew(to, from).value.deletions = diff.value.insertions

\* two equal records are Equal both ways
C30_EqualReached ==
    /\ DistinctRecordsDiffed
    /\ Len(from.ty.fields) = 2
    /\ diff.kind = "Equal"
    /\ DiffNew(to, from).kind = "Equal"

====
